---- MODULE Spec2Model ----
(***************************************************************************)
(* Provisioning orchestrator of the Proxmox external-gRPC cloud provider:  *)
(* the state store (vm_states, group_sizes), the VM lifecycle state        *)
(* machine, the group context, the scaling service, the reconcile service  *)
(* and the orchestrator's per-group mutexes, with the Proxmox inventory    *)
(* and the Kubernetes node list as the environment.                        *)
(*                                                                         *)
(* Spec      every orchestrator operation runs as one step (the group      *)
(*           mutex serialises the operations of a group); the environment  *)
(*           (hypervisor, Kubernetes, clock) moves between operations.     *)
(* SpecTasks the asyncio tasks of the orchestrator: start(), stop(), the   *)
(*           reconcile loop and concurrent RPC calls, interleaved at the   *)
(*           acquisition and release of the locks.                         *)
(***************************************************************************)
EXTENDS Integers, Sequences, FiniteSets, TLC

\* ------------------------------------------------------------------ bounds
MaxVmid == 2
MaxNodes == 2
MaxRefs == 1
MaxDelta == 2
MaxNow == 120
MaxClients == 2
MaxCalls == 2
MaxEvents == 2
MaxTransitions == 2
MaxIdLen == 3
MaxNameLen == 2
MaxIde2Len == 5
MaxTagsLen == 6

\* ------------------------------------------------------- program constants
pending_vm_timeout_seconds == 120

Vmids == 1..MaxVmid
Groups == {"a", "b"}
GroupOrder == <<"a", "b">>

\* Settings.groups: the configured bounds of each group.
settings == [a |-> [min_size |-> 0, max_size |-> 2], b |-> [min_size |-> 1, max_size |-> 1]]

\* No task (an unlocked mutex has no holder).
NoTask == <<>>

\* None of Python, for integer-valued fields (pending_since, a vmid, a size).
None == 0 - 1

\* A cleanup reference is <<storage, volume>>; NoRef when it is not known (None, or an
\* empty storage or volume).
NoRef == <<>>

STATE_PENDING == "pending"
STATE_ACTIVE == "active"
STATE_FAILED == "failed"
STATE_DELETING_VM == "deleting_vm"
STATE_DELETING_ISO == "deleting_iso"
STATE_DELETING_NODE == "deleting_node"
STATE_COMPLETED == "completed"

LIFECYCLE_STATES ==
    {STATE_PENDING, STATE_ACTIVE, STATE_FAILED, STATE_DELETING_VM, STATE_DELETING_ISO, STATE_DELETING_NODE}
DELETE_STATES == {STATE_DELETING_VM, STATE_DELETING_ISO, STATE_DELETING_NODE}

EVENT_BECAME_ACTIVE == "became_active"
EVENT_BECAME_PENDING == "became_pending"
EVENT_REQUEST_DELETE == "request_delete"
EVENT_INFRA_MISSING == "infra_missing"
EVENT_VM_DONE == "vm_done"
EVENT_VM_RETRY == "vm_retry"
EVENT_ISO_DONE == "iso_done"
EVENT_ISO_RETRY == "iso_retry"
EVENT_NODE_DONE == "node_done"
EVENT_NODE_RETRY == "node_retry"

\* Result of a transition the state machine does not allow (TransitionNotAllowed).
InvalidTransition == "InvalidTransition"

is_delete_state(state) == state \in DELETE_STATES

is_lifecycle_state(state) == state \in LIFECYCLE_STATES

\* The transitions declared by VMLifecycleStateMachine, as event -> source -> target.
VMLifecycleStateMachine ==
    [became_active |-> [pending |-> STATE_ACTIVE, active |-> STATE_ACTIVE],
     became_pending |-> [active |-> STATE_PENDING, pending |-> STATE_PENDING],
     mark_failed |-> [pending |-> STATE_FAILED, active |-> STATE_FAILED, failed |-> STATE_FAILED],
     request_delete |-> [pending |-> STATE_DELETING_VM, active |-> STATE_DELETING_VM,
                         failed |-> STATE_DELETING_VM, deleting_vm |-> STATE_DELETING_VM,
                         deleting_iso |-> STATE_DELETING_ISO, deleting_node |-> STATE_DELETING_NODE],
     infra_missing |-> [pending |-> STATE_COMPLETED, active |-> STATE_COMPLETED,
                        failed |-> STATE_COMPLETED, deleting_vm |-> STATE_DELETING_ISO,
                        deleting_iso |-> STATE_DELETING_ISO, deleting_node |-> STATE_DELETING_NODE],
     vm_done |-> [deleting_vm |-> STATE_DELETING_ISO],
     vm_retry |-> [deleting_vm |-> STATE_DELETING_VM],
     iso_done |-> [deleting_iso |-> STATE_DELETING_NODE],
     iso_retry |-> [deleting_iso |-> STATE_DELETING_ISO],
     node_done |-> [deleting_node |-> STATE_COMPLETED],
     node_retry |-> [deleting_node |-> STATE_DELETING_NODE]]

\* Result of getattr(machine, event) for a name the machine does not define.
AttributeError == "AttributeError"

\* transition_state with infra_missing completing a record in deleting_vm (a faulty variant).
transition_state_skipping(state, event) ==
    IF event \notin DOMAIN VMLifecycleStateMachine THEN AttributeError
    ELSE IF state \notin DOMAIN VMLifecycleStateMachine[event] THEN InvalidTransition
    ELSE IF state = STATE_DELETING_VM /\ event = EVENT_INFRA_MISSING THEN STATE_COMPLETED
    ELSE VMLifecycleStateMachine[event][state]

\* transition_state(state, event): the machine is put in `state` and fires `event`.
transition_state(state, event) ==
    IF event \notin DOMAIN VMLifecycleStateMachine THEN AttributeError
    ELSE IF state \notin DOMAIN VMLifecycleStateMachine[event] THEN InvalidTransition
    ELSE VMLifecycleStateMachine[event][state]


\* ------------------------------------------------------------------- state
VARIABLES
    vm_states,    \* table vm_states: vmid -> VmStateRow (a partial function)
    group_sizes,  \* table group_sizes: group id -> desired_size (a partial function)
    pve_vms,      \* Proxmox inventory: vmid -> [name, status, tags, ide2]
    kube_nodes,   \* Kubernetes node list: a set of [name, group, vmid, ready]
    now,          \* int(time.time())
    events,       \* the number of events of the environment so far (VM and node events, failed calls)
    calls,        \* the number of RPC calls issued so far
    started,      \* ProvisioningOrchestrator._started
    start_lock,   \* holder of _start_lock ("free" when unlocked)
    group_locks,  \* _group_locks: group id -> the task holding the mutex (NoTask when unlocked)
    running,      \* group id -> the tasks executing an operation of the group
    lifecycle,    \* the task calling start() / stop(): [op, pc, idx]
    loop,         \* the task of _reconcile_loop: [pc, idx, cancel, err]
    rpc,          \* client -> the facade call in flight: [pc, group]
    fsm,          \* a lifecycle machine on its own: [state, event, result, n]
    initialized,  \* StateStore._initialized
    applied       \* a function applied on its own: [fn, args, ret]

ledger == <<vm_states, group_sizes>>
infra == <<pve_vms, kube_nodes>>
tasks == <<calls, started, start_lock, group_locks, running, lifecycle, loop, rpc, initialized>>
vars == <<vm_states, group_sizes, pve_vms, kube_nodes, now, events, calls,
          started, start_lock, group_locks, running, lifecycle, loop, rpc, fsm,
          initialized, applied>>

\* ----------------------------------------------------------------- helpers
Put(f, k, v) == [x \in (DOMAIN f) \cup {k} |-> IF x = k THEN v ELSE f[x]]

Drop(f, k) == [x \in (DOMAIN f) \ {k} |-> f[x]]

Max(a, b) == IF a >= b THEN a ELSE b

Min(a, b) == IF a <= b THEN a ELSE b

NoCalls == [stop_and_delete_vm |-> {}, delete_storage_volume |-> {}, delete_node |-> {},
            create_vm_from_image |-> {}]

\* f"{group.vm_name_prefix}-{vmid}"; the empty name is <<>>.
VmName(g, vmid) == <<g, vmid>>

\* The state an operation works on: the two tables, the collaborators' state, the
\* collaborator calls made so far, the row writes made so far (each with the state and
\* the group of the row it replaced, "absent" when it inserted the row), the rows removed
\* so far (each with its last state), the steps of the delete pipeline run so far (each
\* with the record's state, the event of its outcome and whether the VM was listed), the
\* VMs the observation pass of reconcile_group counted as managed (vmid -> state), the
\* exception that ended it ("none": still running) and the value returned.
World == [vm_states |-> vm_states, group_sizes |-> group_sizes, pve_vms |-> pve_vms,
          kube_nodes |-> kube_nodes, calls |-> NoCalls, writes |-> {}, removed |-> {},
          steps |-> {}, managed |-> <<>>, err |-> "none", ret |-> None]

\* The collaborator call that fails during one operation (at most one kind fails).
Faults == {"none", "list_vms", "attached_seed_iso", "stop_and_delete_vm", "delete_storage_volume",
           "delete_storage_volume_404", "delete_node", "list_nodes", "list_nodes_prune", "create_vm"}

Raise(w, e) == [w EXCEPT !.err = e]

\* ------------------------------------------------------------- state store
upsert_vm_state(w, vmid, group_id, vm_name, state, pending_since, last_error, cleanup) ==
    LET known == vmid \in DOMAIN w.vm_states
    IN [w EXCEPT !.vm_states = Put(@, vmid,
            [group_id |-> group_id, vm_name |-> vm_name, state |-> state,
             pending_since |-> pending_since, last_error |-> last_error, cleanup |-> cleanup]),
                 !.writes = @ \cup
            {[vmid |-> vmid,
              old_state |-> IF known THEN w.vm_states[vmid].state ELSE "absent",
              old_group |-> IF known THEN w.vm_states[vmid].group_id ELSE "absent",
              state |-> state, group_id |-> group_id, pending_since |-> pending_since,
              last_error |-> last_error]}]

delete_vm_state(w, vmid) ==
    [w EXCEPT !.vm_states = Drop(@, vmid),
              !.removed = @ \cup {[vmid |-> vmid, old_state |-> w.vm_states[vmid].state]
                                  : x \in {vmid} \cap DOMAIN w.vm_states}]

list_group_vm_states(w, group_id) == {v \in DOMAIN w.vm_states : w.vm_states[v].group_id = group_id}

\* set_desired_size_if_missing replacing an entry that exists (a faulty variant).
set_desired_size_replacing(w, group_id, desired_size) ==
    [w EXCEPT !.group_sizes = Put(@, group_id, desired_size)]

set_desired_size_if_missing(w, group_id, desired_size) ==
    IF group_id \in DOMAIN w.group_sizes THEN w
    ELSE [w EXCEPT !.group_sizes = Put(@, group_id, desired_size)]

set_desired_size(w, group_id, desired_size) == [w EXCEPT !.group_sizes = Put(@, group_id, desired_size)]

\* ----------------------------------------------------------- group context
\* group_vms: the VMs whose tags include ca-group-<g>, as vmid -> VMInfo.
group_vms(w, g) ==
    [v \in {x \in DOMAIN w.pve_vms : g \in w.pve_vms[x].tags} |->
        [vmid |-> v, name |-> w.pve_vms[v].name, status |-> w.pve_vms[v].status]]

\* The value ensure_vm_state returns.
ensure_vm_state_result(w, g, vm) ==
    IF /\ vm.vmid \in DOMAIN w.vm_states
       /\ w.vm_states[vm.vmid].group_id = g
       /\ is_lifecycle_state(w.vm_states[vm.vmid].state)
    THEN w.vm_states[vm.vmid].state
    ELSE IF vm.status = "running" THEN STATE_ACTIVE ELSE STATE_PENDING

\* ensure_vm_state keeping the row of the vmid whatever its group (a faulty variant).
ensure_vm_state_any_group(w, g, vm) ==
    IF /\ vm.vmid \in DOMAIN w.vm_states
       /\ is_lifecycle_state(w.vm_states[vm.vmid].state)
    THEN w
    ELSE LET state == IF vm.status = "running" THEN STATE_ACTIVE ELSE STATE_PENDING
             pending_since == IF state = STATE_ACTIVE THEN None ELSE now
         IN upsert_vm_state(w, vm.vmid, g, vm.name, state, pending_since, "none", NoRef)

\* ensure_vm_state seeding every row without a pending_since (a faulty variant).
ensure_vm_state_unstamped(w, g, vm) ==
    IF /\ vm.vmid \in DOMAIN w.vm_states
       /\ w.vm_states[vm.vmid].group_id = g
       /\ is_lifecycle_state(w.vm_states[vm.vmid].state)
    THEN w
    ELSE LET state == IF vm.status = "running" THEN STATE_ACTIVE ELSE STATE_PENDING
         IN upsert_vm_state(w, vm.vmid, g, vm.name, state, None, "none", NoRef)

ensure_vm_state(w, g, vm) ==
    IF /\ vm.vmid \in DOMAIN w.vm_states
       /\ w.vm_states[vm.vmid].group_id = g
       /\ is_lifecycle_state(w.vm_states[vm.vmid].state)
    THEN w
    ELSE LET state == IF vm.status = "running" THEN STATE_ACTIVE ELSE STATE_PENDING
             pending_since == IF state = STATE_ACTIVE THEN None ELSE now
         IN upsert_vm_state(w, vm.vmid, g, vm.name, state, pending_since, "none", NoRef)

set_vm_state(w, g, vm, state, pending_since, last_error, cleanup) ==
    upsert_vm_state(w, vm.vmid, g, vm.name, state, pending_since, last_error, cleanup)

vm_pending_since(w, vmid) ==
    IF vmid \in DOMAIN w.vm_states THEN w.vm_states[vmid].pending_since ELSE None

\* The loop of managed_group_vms / active_group_vms over the listing `vms`, from vmid i on:
\* every VM is seeded or fetched in ascending vmid order.
RECURSIVE ensure_all(_, _, _, _)
ensure_all(w, g, vms, i) ==
    IF i > MaxVmid THEN w
    ELSE IF i \in DOMAIN vms THEN ensure_all(ensure_vm_state(w, g, vms[i]), g, vms, i + 1)
    ELSE ensure_all(w, g, vms, i + 1)

\* managed_group_vms: [w, managed], managed being vmid -> state for pending and active VMs.
managed_group_vms(w, g, f) ==
    IF f = "list_vms" THEN [w |-> Raise(w, "Unavailable"), managed |-> <<>>]
    ELSE LET vms == group_vms(w, g)
         IN [w |-> ensure_all(w, g, vms, 1),
             managed |-> [v \in {x \in DOMAIN vms :
                                    ensure_vm_state_result(w, g, vms[x]) \in {STATE_ACTIVE, STATE_PENDING}}
                            |-> ensure_vm_state_result(w, g, vms[v])]]

\* active_group_vms: [w, active]; a VM that is not running is skipped before it is seeded.
active_group_vms(w, g, f) ==
    IF f = "list_vms" THEN [w |-> Raise(w, "Unavailable"), active |-> {}]
    ELSE LET vms == group_vms(w, g)
             run == [v \in {x \in DOMAIN vms : vms[x].status = "running"} |-> vms[v]]
         IN [w |-> ensure_all(w, g, run, 1),
             active |-> {v \in DOMAIN run : ensure_vm_state_result(w, g, run[v]) = STATE_ACTIVE}]

\* A provider id is a sequence of characters. The decimal digits and their values.
DigitValue == [c \in {"0", "1", "2", "3", "4", "5", "6", "7", "8", "9"} |->
                 CASE c = "0" -> 0 [] c = "1" -> 1 [] c = "2" -> 2 [] c = "3" -> 3
                   [] c = "4" -> 4 [] c = "5" -> 5 [] c = "6" -> 6 [] c = "7" -> 7
                   [] c = "8" -> 8 [] c = "9" -> 9]

IsDigit(c) == c \in DOMAIN DigitValue

\* str(): the digit that writes v.
DigitChar(v) == CHOOSE c \in DOMAIN DigitValue : DigitValue[c] = v

\* int(): the value of a sequence of digits.
RECURSIVE IntOf(_)
IntOf(digits) ==
    IF digits = <<>> THEN 0
    ELSE 10 * IntOf(SubSeq(digits, 1, Len(digits) - 1)) + DigitValue[digits[Len(digits)]]

\* The start of the longest run of digits of s that ends at position end.
RECURSIVE RunStart(_, _)
RunStart(s, end) ==
    IF end >= 1 /\ IsDigit(s[end]) THEN RunStart(s, end - 1) ELSE end + 1

\* re.search(r"(\d+)$", provider_id): `$` matches at the end of the string and before a
\* newline that ends the string; the match is the run of digits ending there.
vmid_from_provider_id(provider_id) ==
    LET n == Len(provider_id)
        end == IF n >= 1 /\ IsDigit(provider_id[n]) THEN n
               ELSE IF n >= 2 /\ provider_id[n] = "\n" /\ IsDigit(provider_id[n - 1]) THEN n - 1
               ELSE 0
    IN IF end = 0 THEN None
       ELSE IntOf(SubSeq(provider_id, RunStart(provider_id, end), end))

\* A name is a sequence of tokens, each a blank or a whole VM name.
Blank == <<" ">>

\* str.strip() of a sequence in which blank is the whitespace.
RECURSIVE Strip(_, _)
Strip(s, blank) ==
    IF s = <<>> THEN s
    ELSE IF Head(s) = blank THEN Strip(Tail(s), blank)
    ELSE IF s[Len(s)] = blank THEN Strip(SubSeq(s, 1, Len(s) - 1), blank)
    ELSE s

strip(name) == Strip(name, Blank)

\* A node reference of the autoscaler: [provider_id, name]. The vmid of the VM found
\* (None when there is none).
find_vm_for_node(w, g, node) ==
    LET vms == group_vms(w, g)
        vmid == vmid_from_provider_id(node.provider_id)
        node_name == strip(node.name)
        named == {v \in DOMAIN vms : <<vms[v].name>> = node_name}
    IN IF vmid # None /\ vmid \in DOMAIN vms THEN vmid
       ELSE IF node_name # <<>> /\ named # {}
            THEN CHOOSE v \in named : \A u \in named : v <= u
            ELSE None

\* --------------------------------------------------------- scaling service
\* ensure_desired_size_initialized: the ledger entry is created when missing; the value
\* returned (w.ret) is the entry clamped into [min_size, max_size].
ensure_desired_size_initialized(w, g, observed_size, f) ==
    LET r == IF observed_size = None THEN managed_group_vms(w, g, f)
             ELSE [w |-> w, managed |-> <<>>]
        observed == IF observed_size = None THEN Cardinality(DOMAIN r.managed) ELSE observed_size
        baseline == Max(settings[g].min_size, observed)
        w1 == set_desired_size_if_missing(r.w, g, baseline)
        desired == w1.group_sizes[g]
    IN IF r.w.err # "none" THEN r.w
       ELSE [w1 EXCEPT !.ret = Max(settings[g].min_size, Min(settings[g].max_size, desired))]

node_group_target_size(w, g, f) == ensure_desired_size_initialized(w, g, None, f)

\* node_group_increase_size persisting the new size before it tests it against max_size
\* (a faulty variant).
node_group_increase_size_early_write(w, g, delta, f) ==
    IF delta <= 0 THEN Raise(w, "InvalidArgument")
    ELSE LET w1 == ensure_desired_size_initialized(w, g, None, f)
             new_desired == w1.ret + delta
             w2 == [set_desired_size(w1, g, new_desired) EXCEPT !.ret = None]
         IN IF w1.err # "none" THEN w1
            ELSE IF new_desired > settings[g].max_size THEN Raise(w2, "FailedPrecondition")
            ELSE w2

node_group_increase_size(w, g, delta, f) ==
    IF delta <= 0 THEN Raise(w, "InvalidArgument")
    ELSE LET w1 == ensure_desired_size_initialized(w, g, None, f)
             new_desired == w1.ret + delta
         IN IF w1.err # "none" THEN w1
            ELSE IF new_desired > settings[g].max_size THEN Raise(w1, "FailedPrecondition")
            ELSE [set_desired_size(w1, g, new_desired) EXCEPT !.ret = None]

\* node_group_decrease_target_size deleting the surplus VMs itself, as a scale-down
\* would (a faulty variant).
node_group_decrease_target_size_shrinking(w, g, delta, f) ==
    IF delta >= 0 THEN Raise(w, "InvalidArgument")
    ELSE LET w1 == ensure_desired_size_initialized(w, g, None, f)
             new_desired == w1.ret + delta
             vms == group_vms(w1, g)
             surplus == {v \in DOMAIN vms : v \in DOMAIN w1.vm_states /\ v > new_desired}
             w2 == [w1 EXCEPT !.calls.stop_and_delete_vm = @ \cup surplus,
                              !.pve_vms = [v \in DOMAIN @ \ surplus |-> @[v]]]
         IN IF w1.err # "none" THEN w1
            ELSE IF new_desired < settings[g].min_size THEN Raise(w1, "FailedPrecondition")
            ELSE [set_desired_size(w2, g, new_desired) EXCEPT !.ret = None]

node_group_decrease_target_size(w, g, delta, f) ==
    IF delta >= 0 THEN Raise(w, "InvalidArgument")
    ELSE LET w1 == ensure_desired_size_initialized(w, g, None, f)
             new_desired == w1.ret + delta
         IN IF w1.err # "none" THEN w1
            ELSE IF new_desired < settings[g].min_size THEN Raise(w1, "FailedPrecondition")
            ELSE [set_desired_size(w1, g, new_desired) EXCEPT !.ret = None]

\* The ide2 entry of a VM's config is a sequence of tokens: ",", ":", " " and pieces of
\* text. The position of the first token sep of s (Len(s) + 1 when there is none).
RECURSIVE Find(_, _, _)
Find(s, sep, i) == IF i > Len(s) \/ s[i] = sep THEN i ELSE Find(s, sep, i + 1)

\* _extract_attached_seed_iso accepting every ISO of the iso/ directory (a faulty variant).
extract_attached_seed_iso_any_iso(ide2) ==
    LET first == Strip(SubSeq(Strip(ide2, " "), 1, Find(Strip(ide2, " "), ",", 1) - 1), " ")
        colon == Find(first, ":", 1)
        storage == Strip(SubSeq(first, 1, colon - 1), " ")
        volume == Strip(SubSeq(first, colon + 1, Len(first)), " ")
    IN IF colon > Len(first) \/ storage = <<>> \/ volume = <<>> THEN NoRef
       ELSE IF Head(volume) # "iso/" THEN NoRef
       ELSE <<storage, volume>>

\* _extract_attached_seed_iso, from its last test to its first. The filename must start
\* with seed- and end with .iso.
extract_seed_iso_filename(storage, volume, filename) ==
    IF filename = <<>> \/ Head(filename) # "seed-" \/ filename[Len(filename)] # ".iso"
    THEN NoRef
    ELSE <<storage, volume>>

\* The storage must not be empty and the volume must start with iso/.
extract_seed_iso_volume(storage, volume) ==
    IF storage = <<>> \/ volume = <<>> THEN NoRef
    ELSE IF Head(volume) # "iso/" THEN NoRef
    ELSE extract_seed_iso_filename(storage, volume, Tail(volume))

\* first.split(":", 1), both parts stripped; without a ":" there is no reference.
extract_seed_iso_split(first, colon) ==
    IF colon > Len(first) THEN NoRef
    ELSE extract_seed_iso_volume(Strip(SubSeq(first, 1, colon - 1), " "),
                                 Strip(SubSeq(first, colon + 1, Len(first)), " "))

extract_seed_iso_first(first) == extract_seed_iso_split(first, Find(first, ":", 1))

\* ide2.split(",", 1)[0].strip() of the stripped ide2.
extract_seed_iso_ide2(ide2) ==
    extract_seed_iso_first(Strip(SubSeq(ide2, 1, Find(ide2, ",", 1) - 1), " "))

\* _extract_attached_seed_iso(vm_cfg): <<storage, volume>> of the first part of ide2 when
\* the volume is iso/<filename> with a filename seed-*.iso, NoRef otherwise.
extract_attached_seed_iso(ide2) == extract_seed_iso_ide2(Strip(ide2, " "))

\* seed_iso_name(vm_name, meta, user): seed-<vm name>-<digest>.iso
seed_iso_name(g, vmid) == <<"seed-", g, DigitChar(vmid), ".iso">>

\* The ide2 entry create_vm_from_image gives the VM.
SeedIde2(g, vmid) == <<"local", ":", "iso/">> \o seed_iso_name(g, vmid) \o <<",", "media=cdrom">>

\* The ide2 entry of a VM somebody else created: an installer ISO.
OtherIde2 == <<"local", ":", "iso/", "ubuntu-live", ".iso", ",", "media=cdrom">>

\* attached_seed_iso(vmid): the seed ISO of the VM's ide2, NoRef when the VM has none; the
\* call raises when the VM's config cannot be read.
attached_seed_iso(w, vmid) == extract_attached_seed_iso(w.pve_vms[vmid].ide2)

attached_seed_iso_raises(w, vmid, f) == f = "attached_seed_iso" \/ vmid \notin DOMAIN w.pve_vms

\* request_vm_deletion reading the seed ISO of the VM again although the record holds a
\* reference (a faulty variant).
request_vm_deletion_recapturing(w, g, vm, f) ==
    LET known == vm.vmid \in DOMAIN w.vm_states
        current_state == IF known THEN w.vm_states[vm.vmid].state ELSE ensure_vm_state_result(w, g, vm)
        w1 == IF known THEN w ELSE ensure_vm_state(w, g, vm)
        cleanup == IF ~attached_seed_iso_raises(w1, vm.vmid, f)
                   THEN attached_seed_iso(w1, vm.vmid)
                   ELSE NoRef
        next_state == IF ~is_lifecycle_state(current_state) THEN STATE_DELETING_VM
                      ELSE transition_state(current_state, EVENT_REQUEST_DELETE)
    IN IF next_state = InvalidTransition THEN Raise(w1, InvalidTransition)
       ELSE set_vm_state(w1, g, vm, next_state, None, "none", cleanup)

request_vm_deletion(w, g, vm, f) ==
    LET known == vm.vmid \in DOMAIN w.vm_states
        current_state == IF known THEN w.vm_states[vm.vmid].state ELSE ensure_vm_state_result(w, g, vm)
        w1 == IF known THEN w ELSE ensure_vm_state(w, g, vm)
        recorded == IF known THEN w.vm_states[vm.vmid].cleanup ELSE NoRef
        cleanup == IF recorded = NoRef /\ ~attached_seed_iso_raises(w1, vm.vmid, f)
                   THEN attached_seed_iso(w1, vm.vmid)
                   ELSE recorded
        next_state == IF ~is_lifecycle_state(current_state) THEN STATE_DELETING_VM
                      ELSE transition_state(current_state, EVENT_REQUEST_DELETE)
    IN IF next_state = InvalidTransition THEN Raise(w1, InvalidTransition)
       ELSE set_vm_state(w1, g, vm, next_state, None, "none", cleanup)

\* The loop of node_group_delete_nodes over entries[i..]: resolve, then request the deletion.
RECURSIVE delete_nodes_loop(_, _, _, _, _)
delete_nodes_loop(w, g, entries, i, f) ==
    IF i > Len(entries) \/ w.err # "none" THEN w
    ELSE IF f = "list_vms" THEN Raise(w, "Unavailable")
    ELSE LET vmid == find_vm_for_node(w, g, entries[i])
         IN IF vmid = None THEN Raise(w, "NotFound")
            ELSE delete_nodes_loop(request_vm_deletion(w, g, group_vms(w, g)[vmid], f), g, entries, i + 1, f)

node_group_delete_nodes(w, g, entries, f) ==
    IF entries = <<>> THEN w
    ELSE LET w1 == delete_nodes_loop(w, g, entries, 1, f)
             deleted == Len(entries)
             w2 == ensure_desired_size_initialized(w1, g, None, f)
         IN IF w1.err # "none" THEN w1
            ELSE IF w2.err # "none" THEN w2
            ELSE [set_desired_size(w2, g, Max(settings[g].min_size, w2.ret - deleted)) EXCEPT !.ret = None]

node_group_nodes(w, g, f) == active_group_vms(w, g, f).w

\* The sort key of shrink_to_desired without the state (a faulty variant).
shrink_before_newest_first(candidates, u, v) == u > v

\* The victims of shrink_to_desired: the first remove_count candidates in the order
\* (pending before active, then vmid descending).
shrink_before(candidates, u, v) ==
    LET ku == IF candidates[u] = STATE_PENDING THEN 0 ELSE 1
        kv == IF candidates[v] = STATE_PENDING THEN 0 ELSE 1
    IN ku < kv \/ (ku = kv /\ u > v)

shrink_victims(candidates, desired) ==
    LET remove_count == Cardinality(DOMAIN candidates) - desired
    IN {v \in DOMAIN candidates :
           Cardinality({u \in DOMAIN candidates : shrink_before(candidates, u, v)}) < remove_count}

\* request_vm_deletion for the victims in `todo`, in the sorted order.
RECURSIVE shrink_loop(_, _, _, _, _, _)
shrink_loop(w, g, vms, candidates, todo, f) ==
    IF todo = {} \/ w.err # "none" THEN w
    ELSE LET v == CHOOSE x \in todo : \A u \in todo \ {x} : shrink_before(candidates, x, u)
         IN shrink_loop(request_vm_deletion(w, g, vms[v], f), g, vms, candidates, todo \ {v}, f)

\* shrink_to_desired(group, candidates, desired); `vms` holds the candidates' VMInfo.
shrink_to_desired(w, g, vms, candidates, desired, f) ==
    IF Cardinality(DOMAIN candidates) <= desired THEN w
    ELSE shrink_loop(w, g, vms, candidates, shrink_victims(candidates, desired), f)

\* ------------------------------------------------------- reconcile service
Called(w, call, arg) == [w EXCEPT !.calls[call] = @ \cup {arg}]

\* _persist_delete_state writing the reference it is given, known or not (a faulty
\* variant).
persist_delete_state_given_reference(w, g, vmid, record, state, last_error, cleanup) ==
    upsert_vm_state(w, vmid, g, record.vm_name, state, None, last_error, cleanup)

\* _persist_delete_state: without a cleanup reference the record's reference is kept.
persist_delete_state(w, g, vmid, record, state, last_error, cleanup) ==
    upsert_vm_state(w, vmid, g, record.vm_name, state, None, last_error,
                    IF cleanup = NoRef THEN record.cleanup ELSE cleanup)

\* _reconcile_missing_vm_records over the records listed for the group, from vmid i on.
RECURSIVE reconcile_missing_vm_records(_, _, _, _, _)
reconcile_missing_vm_records(w, g, records, existing_vmids, i) ==
    IF i > MaxVmid \/ w.err # "none" THEN w
    ELSE IF i \notin DOMAIN records \/ i \in existing_vmids
         THEN reconcile_missing_vm_records(w, g, records, existing_vmids, i + 1)
    ELSE LET record == records[i]
             next_state == transition_state(record.state, EVENT_INFRA_MISSING)
             w1 == IF ~is_lifecycle_state(record.state) THEN delete_vm_state(w, i)
                   ELSE IF next_state = InvalidTransition THEN Raise(w, InvalidTransition)
                   ELSE IF next_state = STATE_COMPLETED THEN delete_vm_state(w, i)
                   ELSE persist_delete_state(w, g, i, record, next_state, "none", NoRef)
         IN reconcile_missing_vm_records(w1, g, records, existing_vmids, i + 1)

\* The records of the group as list_group_vm_states returns them (vmid -> record).
group_records(w, g) == [v \in list_group_vm_states(w, g) |-> w.vm_states[v]]

\* _step_delete_vm: [w, event, last_error, cleanup].
step_delete_vm(w, vmid, record, listed, f) ==
    LET cleanup == IF record.cleanup = NoRef /\ listed /\ ~attached_seed_iso_raises(w, vmid, f)
                   THEN attached_seed_iso(w, vmid) ELSE record.cleanup
    IN IF listed /\ f = "stop_and_delete_vm"
       THEN [w |-> Called(w, "stop_and_delete_vm", vmid), event |-> EVENT_VM_RETRY,
             last_error |-> "delete vm failed", cleanup |-> cleanup]
       ELSE IF listed
       THEN [w |-> [Called(w, "stop_and_delete_vm", vmid) EXCEPT !.pve_vms = Drop(@, vmid)],
             event |-> EVENT_VM_DONE, last_error |-> "none", cleanup |-> cleanup]
       ELSE [w |-> w, event |-> EVENT_VM_DONE, last_error |-> "none", cleanup |-> cleanup]

\* _step_delete_iso taking a 404 answer for a failure (a faulty variant).
step_delete_iso_404_retries(w, vmid, record, f) ==
    IF record.cleanup = NoRef
    THEN [w |-> w, event |-> EVENT_ISO_DONE, last_error |-> "none", cleanup |-> record.cleanup]
    ELSE IF f \in {"delete_storage_volume", "delete_storage_volume_404"}
    THEN [w |-> Called(w, "delete_storage_volume", record.cleanup), event |-> EVENT_ISO_RETRY,
          last_error |-> "delete iso failed", cleanup |-> record.cleanup]
    ELSE [w |-> Called(w, "delete_storage_volume", record.cleanup), event |-> EVENT_ISO_DONE,
          last_error |-> "none", cleanup |-> record.cleanup]

\* _step_delete_iso: a 404 answer counts as done.
step_delete_iso(w, vmid, record, f) ==
    IF record.cleanup = NoRef
    THEN [w |-> w, event |-> EVENT_ISO_DONE, last_error |-> "none", cleanup |-> record.cleanup]
    ELSE IF f = "delete_storage_volume"
    THEN [w |-> Called(w, "delete_storage_volume", record.cleanup), event |-> EVENT_ISO_RETRY,
          last_error |-> "delete iso failed", cleanup |-> record.cleanup]
    ELSE [w |-> Called(w, "delete_storage_volume", record.cleanup), event |-> EVENT_ISO_DONE,
          last_error |-> "none", cleanup |-> record.cleanup]

\* kube.delete_node(name): a missing node is not an error.
kube_delete_node(w, name) ==
    [Called(w, "delete_node", name) EXCEPT !.kube_nodes = {n \in @ : n.name # name}]

step_delete_node(w, vmid, record, f) ==
    IF f = "delete_node"
    THEN [w |-> Called(w, "delete_node", record.vm_name), event |-> EVENT_NODE_RETRY,
          last_error |-> "delete node failed", cleanup |-> record.cleanup]
    ELSE [w |-> kube_delete_node(w, record.vm_name), event |-> EVENT_NODE_DONE,
          last_error |-> "none", cleanup |-> record.cleanup]

\* _run_delete_step deleting the seed ISO while the VM is still to be deleted (a faulty
\* variant).
run_delete_step_iso_first(w, vmid, record, listed, f) ==
    IF record.state = STATE_DELETING_VM /\ record.cleanup # NoRef
    THEN step_delete_vm(Called(w, "delete_storage_volume", record.cleanup), vmid, record, listed, f)
    ELSE IF record.state = STATE_DELETING_VM THEN step_delete_vm(w, vmid, record, listed, f)
    ELSE IF record.state = STATE_DELETING_ISO THEN step_delete_iso(w, vmid, record, f)
    ELSE IF record.state = STATE_DELETING_NODE THEN step_delete_node(w, vmid, record, f)
    ELSE [w |-> w, event |-> EVENT_NODE_RETRY, last_error |-> "unknown delete state",
          cleanup |-> NoRef]

run_delete_step(w, vmid, record, listed, f) ==
    IF record.state = STATE_DELETING_VM THEN step_delete_vm(w, vmid, record, listed, f)
    ELSE IF record.state = STATE_DELETING_ISO THEN step_delete_iso(w, vmid, record, f)
    ELSE IF record.state = STATE_DELETING_NODE THEN step_delete_node(w, vmid, record, f)
    ELSE [w |-> w, event |-> EVENT_NODE_RETRY, last_error |-> "unknown delete state",
          cleanup |-> NoRef]

progress_delete_state(w, g, vmid, record, listed, f) ==
    LET outcome == run_delete_step(w, vmid, record, listed, f)
        next_state == transition_state(record.state, outcome.event)
        w1 == [outcome.w EXCEPT !.steps = @ \cup
                  {[vmid |-> vmid, state |-> record.state, event |-> outcome.event,
                    listed |-> listed, vm_name |-> record.vm_name, cleanup |-> record.cleanup]}]
    IN IF next_state = InvalidTransition THEN Raise(w1, InvalidTransition)
       ELSE IF next_state = STATE_COMPLETED THEN delete_vm_state(w1, vmid)
       ELSE persist_delete_state(w1, g, vmid, record, next_state, outcome.last_error,
                                 outcome.cleanup)

\* The delete-pipeline loop of reconcile_group over the listed records, from vmid i on.
RECURSIVE progress_delete_states(_, _, _, _, _, _)
progress_delete_states(w, g, records, vm_by_id, i, f) ==
    IF i > MaxVmid \/ w.err # "none" THEN w
    ELSE IF i \in DOMAIN records /\ is_delete_state(records[i].state)
         THEN progress_delete_states(
                  progress_delete_state(w, g, i, records[i], i \in DOMAIN vm_by_id, f),
                  g, records, vm_by_id, i + 1, f)
    ELSE progress_delete_states(w, g, records, vm_by_id, i + 1, f)

\* _is_kube_node_ready_for_vm matching a node whatever its group label (a faulty variant).
is_kube_node_ready_for_vm_any_group(g, vm, nodes) ==
    \E item \in nodes :
        /\ (item.vmid = vm.vmid \/ item.name = vm.name)
        /\ item.ready

is_kube_node_ready_for_vm(g, vm, nodes) ==
    \E item \in nodes :
        /\ item.group = g
        /\ (item.vmid = vm.vmid \/ item.name = vm.name)
        /\ item.ready

\* The observation of one VM testing the pending timeout before the promotion (a faulty
\* variant).
observe_vm_timeout_first(w, g, vm, nodes, f) ==
    LET s0 == ensure_vm_state_result(w, g, vm)
        w0 == ensure_vm_state(w, g, vm)
        demote == s0 = STATE_ACTIVE /\ vm.status # "running"
        s1 == IF demote THEN transition_state(s0, EVENT_BECAME_PENDING) ELSE s0
        w1 == IF demote THEN set_vm_state(w0, g, vm, s1, now, "vm not running", NoRef) ELSE w0
        unset == vm_pending_since(w1, vm.vmid) = None
        pending_since == IF unset THEN now ELSE vm_pending_since(w1, vm.vmid)
        w2 == IF unset THEN set_vm_state(w1, g, vm, STATE_PENDING, pending_since, "none", NoRef) ELSE w1
        age_s == Max(0, now - pending_since)
    IN IF is_delete_state(s0) THEN [w |-> w0, managed |-> "no"]
       ELSE IF s0 = STATE_FAILED THEN [w |-> request_vm_deletion(w0, g, vm, f), managed |-> "no"]
       ELSE IF s1 = STATE_PENDING
       THEN IF age_s >= pending_vm_timeout_seconds
            THEN [w |-> request_vm_deletion(w2, g, vm, f), managed |-> "no"]
            ELSE IF vm.status = "running" /\ is_kube_node_ready_for_vm(g, vm, nodes)
            THEN [w |-> set_vm_state(w2, g, vm, transition_state(s1, EVENT_BECAME_ACTIVE), None, "none", NoRef),
                  managed |-> transition_state(s1, EVENT_BECAME_ACTIVE)]
            ELSE [w |-> w2, managed |-> s1]
       ELSE [w |-> w1, managed |-> s1]

\* One iteration of the observation pass for `vm`: [w, managed], managed being the state
\* under which the VM counts as managed, or "no".
observe_vm(w, g, vm, nodes, f) ==
    LET s0 == ensure_vm_state_result(w, g, vm)
        w0 == ensure_vm_state(w, g, vm)
        demote == s0 = STATE_ACTIVE /\ vm.status # "running"
        s1 == IF demote THEN transition_state(s0, EVENT_BECAME_PENDING) ELSE s0
        w1 == IF demote THEN set_vm_state(w0, g, vm, s1, now, "vm not running", NoRef) ELSE w0
        unset == vm_pending_since(w1, vm.vmid) = None
        pending_since == IF unset THEN now ELSE vm_pending_since(w1, vm.vmid)
        w2 == IF unset THEN set_vm_state(w1, g, vm, STATE_PENDING, pending_since, "none", NoRef) ELSE w1
        age_s == Max(0, now - pending_since)
    IN IF is_delete_state(s0) THEN [w |-> w0, managed |-> "no"]
       ELSE IF s0 = STATE_FAILED THEN [w |-> request_vm_deletion(w0, g, vm, f), managed |-> "no"]
       ELSE IF s1 = STATE_PENDING
       THEN IF vm.status = "running" /\ is_kube_node_ready_for_vm(g, vm, nodes)
            THEN [w |-> set_vm_state(w2, g, vm, transition_state(s1, EVENT_BECAME_ACTIVE), None, "none", NoRef),
                  managed |-> transition_state(s1, EVENT_BECAME_ACTIVE)]
            ELSE IF age_s >= pending_vm_timeout_seconds
            THEN [w |-> request_vm_deletion(w2, g, vm, f), managed |-> "no"]
            ELSE [w |-> w2, managed |-> s1]
       ELSE [w |-> w1, managed |-> s1]

\* The observation pass over the snapshot, from vmid i on: [w, managed].
RECURSIVE observe_vms(_, _, _, _, _, _, _)
observe_vms(w, g, vms, nodes, managed, i, f) ==
    IF i > MaxVmid \/ w.err # "none" THEN [w |-> w, managed |-> managed]
    ELSE IF i \notin DOMAIN vms THEN observe_vms(w, g, vms, nodes, managed, i + 1, f)
    ELSE LET r == observe_vm(w, g, vms[i], nodes, f)
         IN observe_vms(r.w, g, vms, nodes,
                        IF r.managed = "no" THEN managed ELSE Put(managed, i, r.managed), i + 1, f)

\* delete_node for every node of `todo`; a failing delete is logged and skipped.
RECURSIVE prune_nodes(_, _, _)
prune_nodes(w, todo, f) ==
    IF todo = {} THEN w
    ELSE LET name == CHOOSE x \in todo : TRUE
         IN prune_nodes(IF f = "delete_node" THEN Called(w, "delete_node", name)
                        ELSE kube_delete_node(w, name), todo \ {name}, f)

\* _prune_stale_kube_nodes_for_group sparing the nodes of pending VMs too (a faulty
\* variant).
prune_stale_kube_nodes_for_group_sparing_managed(w, g, f) ==
    IF f \in {"list_nodes_prune"} THEN w
    ELSE LET nodes == w.kube_nodes
             r == managed_group_vms(w, g, f)
             vm_names == {w.pve_vms[v].name : v \in DOMAIN r.managed}
             stale == {n.name : n \in {x \in nodes : x.group = g /\ x.name # <<>>}} \ vm_names
         IN IF r.w.err # "none" THEN r.w ELSE prune_nodes(r.w, stale, f)

prune_stale_kube_nodes_for_group(w, g, f) ==
    IF f \in {"list_nodes_prune"} THEN w
    ELSE LET nodes == w.kube_nodes
             r == active_group_vms(w, g, f)
             vm_names == {w.pve_vms[v].name : v \in r.active}
             stale == {n.name : n \in {x \in nodes : x.group = g /\ x.name # <<>>}} \ vm_names
         IN IF r.w.err # "none" THEN r.w ELSE prune_nodes(r.w, stale, f)

\* proxmox.nextid(): the lowest vmid no VM of the cluster uses (None: no vmid is left).
nextid(w) ==
    IF Vmids \subseteq DOMAIN w.pve_vms THEN None
    ELSE CHOOSE v \in Vmids \ DOMAIN w.pve_vms : \A u \in Vmids \ DOMAIN w.pve_vms : v <= u

\* _create_vm followed by the pending record of the new VM, n times.
RECURSIVE create_vms(_, _, _, _)
create_vms(w, g, n, f) ==
    IF n = 0 \/ w.err # "none" THEN w
    ELSE LET vmid == nextid(w)
             vm == [vmid |-> vmid, name |-> VmName(g, vmid), status |-> "running"]
             w1 == [Called(w, "create_vm_from_image", vmid) EXCEPT !.pve_vms = Put(@, vmid,
                       [name |-> vm.name, status |-> "running", tags |-> {g},
                        ide2 |-> SeedIde2(g, vmid)])]
         IN IF vmid = None \/ f = "create_vm" THEN Raise(w, "Unavailable")
            ELSE create_vms(set_vm_state(w1, g, vm, STATE_PENDING, now, "none", NoRef), g, n - 1, f)

bootstrap_group(w, g, f) ==
    IF f = "list_vms" THEN Raise(w, "Unavailable")
    ELSE LET vms == group_vms(w, g)
             w1 == reconcile_missing_vm_records(w, g, group_records(w, g), DOMAIN vms, 1)
             managed_count == Cardinality({v \in DOMAIN vms :
                 ensure_vm_state_result(w1, g, vms[v]) \in {STATE_ACTIVE, STATE_PENDING}})
             w2 == ensure_all(w1, g, vms, 1)
         IN IF w1.err # "none" THEN w1
            ELSE ensure_desired_size_initialized(w2, g, managed_count, f)

\* The convergence step taking the number of managed VMs for the desired size (a faulty
\* variant).
converge_to_observed(w, g, vms, managed, f) ==
    set_desired_size(w, g, Max(settings[g].min_size, Min(settings[g].max_size, Cardinality(DOMAIN managed))))

\* The convergence step creating one VM per tick (a faulty variant).
converge_one_by_one(w, g, vms, managed, f) ==
    LET w1 == ensure_desired_size_initialized(w, g, Cardinality(DOMAIN managed), f)
        w2 == IF w1.ret < settings[g].min_size
              THEN [set_desired_size(w1, g, settings[g].min_size) EXCEPT !.ret = settings[g].min_size]
              ELSE w1
        w3 == IF w2.ret > settings[g].max_size
              THEN [set_desired_size(w2, g, settings[g].max_size) EXCEPT !.ret = settings[g].max_size]
              ELSE w2
        desired == w3.ret
        count == Cardinality(DOMAIN managed)
    IN IF w1.err # "none" THEN w1
       ELSE IF count < desired THEN create_vms(w3, g, 1, f)
       ELSE IF count > desired THEN shrink_to_desired(w3, g, vms, managed, desired, f)
       ELSE w3

\* The convergence step of reconcile_group, after the stale-node prune.
converge(w, g, vms, managed, f) ==
    LET w1 == ensure_desired_size_initialized(w, g, Cardinality(DOMAIN managed), f)
        w2 == IF w1.ret < settings[g].min_size
              THEN [set_desired_size(w1, g, settings[g].min_size) EXCEPT !.ret = settings[g].min_size]
              ELSE w1
        w3 == IF w2.ret > settings[g].max_size
              THEN [set_desired_size(w2, g, settings[g].max_size) EXCEPT !.ret = settings[g].max_size]
              ELSE w2
        desired == w3.ret
        count == Cardinality(DOMAIN managed)
    IN IF w1.err # "none" THEN w1
       ELSE IF count < desired THEN create_vms(w3, g, desired - count, f)
       ELSE IF count > desired THEN shrink_to_desired(w3, g, vms, managed, desired, f)
       ELSE w3

\* reconcile_group giving the tick up when the node listing fails (a faulty variant).
reconcile_group_needing_nodes(w, g, f) ==
    IF f \in {"list_vms", "list_nodes"} THEN Raise(w, "Unavailable")
    ELSE LET nodes == w.kube_nodes
             vms == group_vms(w, g)
             w1 == reconcile_missing_vm_records(w, g, group_records(w, g), DOMAIN vms, 1)
             w2 == progress_delete_states(w1, g, group_records(w1, g), vms, 1, f)
             r == observe_vms(w2, g, vms, nodes, <<>>, 1, f)
             w3 == prune_stale_kube_nodes_for_group(r.w, g, f)
         IN IF w1.err # "none" THEN w1
            ELSE IF w2.err # "none" THEN w2
            ELSE IF r.w.err # "none" THEN r.w
            ELSE IF w3.err # "none" THEN w3
            ELSE [converge(w3, g, vms, r.managed, f) EXCEPT !.ret = None, !.managed = r.managed]

reconcile_group(w, g, f) ==
    IF f = "list_vms" THEN Raise(w, "Unavailable")
    ELSE LET nodes == IF f = "list_nodes" THEN {} ELSE w.kube_nodes
             vms == group_vms(w, g)
             w1 == reconcile_missing_vm_records(w, g, group_records(w, g), DOMAIN vms, 1)
             w2 == progress_delete_states(w1, g, group_records(w1, g), vms, 1, f)
             r == observe_vms(w2, g, vms, nodes, <<>>, 1, f)
             w3 == prune_stale_kube_nodes_for_group(r.w, g, f)
         IN IF w1.err # "none" THEN w1
            ELSE IF w2.err # "none" THEN w2
            ELSE IF r.w.err # "none" THEN r.w
            ELSE IF w3.err # "none" THEN w3
            ELSE [converge(w3, g, vms, r.managed, f) EXCEPT !.ret = None, !.managed = r.managed]

\* node_group_for_node initialising the desired size of the group it returns, as the
\* operations under the group's mutex do (a faulty variant).
RECURSIVE node_group_for_node_initializing(_, _, _, _)
node_group_for_node_initializing(w, node, i, f) ==
    IF \E g \in Groups : Strip(node.label, " ") = <<g>>
    THEN [ensure_desired_size_initialized(w, Strip(node.label, " ")[1], None, f)
             EXCEPT !.ret = Strip(node.label, " ")]
    ELSE IF i > Len(GroupOrder) THEN [w EXCEPT !.ret = <<>>]
    ELSE IF f = "list_vms" THEN Raise(w, "Unavailable")
    ELSE IF find_vm_for_node(w, GroupOrder[i], node) # None
    THEN [ensure_desired_size_initialized(w, GroupOrder[i], None, f) EXCEPT !.ret = <<GroupOrder[i]>>]
    ELSE node_group_for_node_initializing(w, node, i + 1, f)

\* node_group_for_node(node), from the i-th configured group on: <<group id>> of the group
\* the autoscaler.proxmox/group label names when that is a configured group, else of the
\* first group in which find_vm_for_node resolves the node, else <<>> (None).
RECURSIVE node_group_for_node(_, _, _, _)
node_group_for_node(w, node, i, f) ==
    IF \E g \in Groups : Strip(node.label, " ") = <<g>>
    THEN [w EXCEPT !.ret = Strip(node.label, " ")]
    ELSE IF i > Len(GroupOrder) THEN [w EXCEPT !.ret = <<>>]
    ELSE IF f = "list_vms" THEN Raise(w, "Unavailable")
    ELSE IF find_vm_for_node(w, GroupOrder[i], node) # None
    THEN [w EXCEPT !.ret = <<GroupOrder[i]>>]
    ELSE node_group_for_node(w, node, i + 1, f)

\* -------------------------------------------------------------- operations
\* The inputs of the RPCs.
Deltas == (0 - MaxDelta)..MaxDelta

Ghost == [provider_id |-> <<>>, name |-> << <<"ghost", 0>> >>]

\* The provider id the autoscaler reports for VM v.
ProviderId(v) == <<"k", DigitChar(v)>>

NodeRefs == {[provider_id |-> ProviderId(v), name |-> <<>>] : v \in 1..MaxRefs} \cup {Ghost}

NodeLists == UNION {[1..n -> NodeRefs] : n \in 0..MaxNodes}

\* The operation's effects become the state; an exception keeps the writes already made.
Apply(w) ==
    /\ vm_states' = w.vm_states
    /\ group_sizes' = w.group_sizes
    /\ pve_vms' = w.pve_vms
    /\ kube_nodes' = w.kube_nodes

\* A failing collaborator call is an event of the environment.
Faulty(f) == events' = IF f = "none" THEN events ELSE events + 1

\* The collaborator failures each operation can meet.
TargetSizeFaults == {"none", "list_vms"}

ScalingFaults == {"none"}

DeleteNodesFaults == {"none", "attached_seed_iso"}

\* The failures the environment can still inject among F.
FaultsNow(F) == {f \in F : f = "none" \/ events < MaxEvents}

DoTargetSize(g) ==
    \E f \in FaultsNow(TargetSizeFaults) :
        \E w \in {node_group_target_size(World, g, f)} : Apply(w) /\ Faulty(f)

DoIncreaseSize(g) ==
    \E delta \in 0..MaxDelta, f \in FaultsNow(ScalingFaults) :
        \E w \in {node_group_increase_size(World, g, delta, f)} : Apply(w) /\ Faulty(f)

DoDecreaseTargetSize(g) ==
    \E delta \in (0 - MaxDelta)..0, f \in FaultsNow(ScalingFaults) :
        \E w \in {node_group_decrease_target_size(World, g, delta, f)} : Apply(w) /\ Faulty(f)

DoDeleteNodes(g) ==
    \E entries \in NodeLists, f \in FaultsNow(DeleteNodesFaults) :
        \E w \in {node_group_delete_nodes(World, g, entries, f)} : Apply(w) /\ Faulty(f)

DoNodes(g) ==
    \E f \in FaultsNow(ScalingFaults) :
        \E w \in {node_group_nodes(World, g, f)} : Apply(w) /\ Faulty(f)

DoBootstrap(g) ==
    \E f \in FaultsNow(ScalingFaults) :
        \E w \in {bootstrap_group(World, g, f)} : Apply(w) /\ Faulty(f)

DoReconcile(g) ==
    \E f \in FaultsNow(Faults) :
        \E w \in {reconcile_group(World, g, f)} : Apply(w) /\ Faulty(f)

\* ------------------------------------------------------------- environment
Env == UNCHANGED <<ledger, tasks, fsm, applied>>

Event == events < MaxEvents /\ events' = events + 1 /\ Env

\* The clock advances by the pending timeout, or by one second less.
Tick ==
    /\ \E d \in {pending_vm_timeout_seconds - 1, pending_vm_timeout_seconds} :
          now + d <= MaxNow /\ now' = now + d
    /\ Event /\ UNCHANGED infra

\* An operator creates a VM by hand and tags it for one or for several groups.
OperatorCreatesVm(v, tags) ==
    /\ v \notin DOMAIN pve_vms
    /\ pve_vms' = Put(pve_vms, v, [name |-> <<"op", v>>, status |-> "running", tags |-> tags,
                                   ide2 |-> OtherIde2])
    /\ Event /\ UNCHANGED <<kube_nodes, now>>

\* A VM stops running.
VmStops(v) ==
    /\ v \in DOMAIN pve_vms /\ pve_vms[v].status = "running"
    /\ pve_vms' = [pve_vms EXCEPT ![v].status = "stopped"]
    /\ Event /\ UNCHANGED <<kube_nodes, now>>

\* A VM disappears from the hypervisor without the provider deleting it.
VmVanishes(v) ==
    /\ v \in DOMAIN pve_vms
    /\ pve_vms' = Drop(pve_vms, v)
    /\ Event /\ UNCHANGED <<kube_nodes, now>>

\* The k3s agent of a VM the provider created registers its node under the VM's name,
\* Ready or not yet, with the labels of its seed or without the group label ("").
NodeJoins(v) ==
    /\ v \in DOMAIN pve_vms /\ pve_vms[v].status = "running"
    /\ extract_attached_seed_iso(pve_vms[v].ide2) # NoRef
    /\ \E g \in pve_vms[v].tags \cup {""}, ready \in BOOLEAN :
          kube_nodes' = kube_nodes \cup {[name |-> pve_vms[v].name, group |-> g, vmid |-> v, ready |-> ready]}
    /\ Event /\ UNCHANGED <<pve_vms, now>>

\* ----------------------------------------------------------- specification
InitData ==
    /\ vm_states = <<>>
    /\ group_sizes = <<>>
    /\ pve_vms = <<>>
    /\ kube_nodes = {}
    /\ now = 0
    /\ events = 0

InitTasks ==
    /\ calls = 0
    /\ started = FALSE
    /\ start_lock = "free"
    /\ group_locks = [g \in Groups |-> NoTask]
    /\ running = [g \in Groups |-> {}]
    /\ lifecycle = [op |-> "none", pc |-> "idle", idx |-> 0]
    /\ loop = [pc |-> "none", idx |-> 0, cancel |-> FALSE, err |-> "none"]
    /\ initialized = FALSE
    /\ rpc = [c \in 1..MaxClients |-> [pc |-> "idle", group |-> ""]]

\* The machine of a VM that was just created.
InitFsm == fsm = [state |-> STATE_PENDING, event |-> "", result |-> "", n |-> 0]

\* No function has been applied.
NoCall == [fn |-> "", args |-> <<>>, ret |-> <<>>]

InitCall == applied = NoCall

Init == InitData /\ InitTasks /\ InitFsm /\ InitCall

Op == UNCHANGED <<now, tasks, fsm, applied>>

NodeGroupTargetSize == \E g \in Groups : DoTargetSize(g) /\ Op

NodeGroupIncreaseSize == \E g \in Groups : DoIncreaseSize(g) /\ Op

NodeGroupDecreaseTargetSize == \E g \in Groups : DoDecreaseTargetSize(g) /\ Op

NodeGroupDeleteNodes == \E g \in Groups : DoDeleteNodes(g) /\ Op

NodeGroupNodes == \E g \in Groups : DoNodes(g) /\ Op

BootstrapGroup == \E g \in Groups : DoBootstrap(g) /\ Op

ReconcileGroup == \E g \in Groups : DoReconcile(g) /\ Op

Environment ==
    \/ Tick
    \/ \E v \in Vmids, tags \in (SUBSET Groups) \ {{}} : OperatorCreatesVm(v, tags)
    \/ \E v \in Vmids : VmStops(v)
    \/ \E v \in Vmids : VmVanishes(v)
    \/ \E v \in Vmids : NodeJoins(v)

Next ==
    \/ NodeGroupTargetSize
    \/ NodeGroupIncreaseSize
    \/ NodeGroupDecreaseTargetSize
    \/ NodeGroupDeleteNodes
    \/ NodeGroupNodes
    \/ BootstrapGroup
    \/ ReconcileGroup
    \/ Environment

Spec == Init /\ [][Next]_vars

\* ------------------------------------------------------- orchestrator tasks
\* The tasks that run operations: the caller of start() and stop(), the reconcile loop
\* and the RPC handlers. A task moves at its awaits: the acquisition of a lock, and the
\* body of the operation it runs under the lock (the body's effects are applied where it
\* completes).
Clients == 1..MaxClients

StartTask == <<"start", 0>>

LoopTask == <<"loop", 0>>

RpcTask(c) == <<"rpc", c>>

data == <<vm_states, group_sizes, pve_vms, kube_nodes, events>>

\* A mutex that never reports itself held (a faulty variant).
locked_never(g) == group_locks[g] # group_locks[g]

\* asyncio.Lock.locked() of the group's mutex.
locked(g) == group_locks[g] # NoTask

\* `async with lock:` entered by task t, which starts its operation of group g.
Acquire(g, t) ==
    /\ ~locked(g)
    /\ group_locks' = [group_locks EXCEPT ![g] = t]
    /\ running' = [running EXCEPT ![g] = @ \cup {t}]

\* The operation of task t ends (it returns, raises or is cancelled) and the `async with`
\* block releases the mutex.
Release(g, t) ==
    /\ group_locks' = [group_locks EXCEPT ![g] = NoTask]
    /\ running' = [running EXCEPT ![g] = @ \ {t}]

\* start(): under _start_lock; a started orchestrator returns at once.
StartCall ==
    /\ lifecycle.pc = "idle" /\ start_lock = "free"
    /\ IF started
       THEN UNCHANGED <<start_lock, lifecycle, initialized>>
       ELSE /\ start_lock' = "start"
            /\ initialized' = TRUE
            /\ lifecycle' = [op |-> "start", pc |-> "acquire", idx |-> 1]
    /\ UNCHANGED <<data, now, fsm, applied, calls, started, group_locks, running, loop, rpc>>

\* start(): `async with lock:` of the next group to bootstrap.
StartAcquire ==
    /\ lifecycle.op = "start" /\ lifecycle.pc = "acquire"
    /\ Acquire(GroupOrder[lifecycle.idx], StartTask)
    /\ lifecycle' = [lifecycle EXCEPT !.pc = "bootstrap"]
    /\ UNCHANGED <<data, now, fsm, applied, initialized, calls, started, start_lock, loop, rpc>>

\* start(): bootstrap_group under the group's mutex. After the last group the reconcile
\* loop is created and _started is set; an exception leaves start() with _started unset.
StartBootstrap ==
    /\ lifecycle.op = "start" /\ lifecycle.pc = "bootstrap"
    /\ \E g \in {GroupOrder[lifecycle.idx]}, f \in FaultsNow(TargetSizeFaults) :
          \E w \in {bootstrap_group(World, g, f)} :
              /\ Apply(w) /\ Faulty(f)
              /\ Release(g, StartTask)
              /\ IF w.err # "none"
                 THEN /\ lifecycle' = [op |-> "none", pc |-> "idle", idx |-> 0]
                      /\ start_lock' = "free"
                      /\ UNCHANGED <<started, loop>>
                 ELSE IF lifecycle.idx < Len(GroupOrder)
                 THEN /\ lifecycle' = [lifecycle EXCEPT !.pc = "acquire", !.idx = @ + 1]
                      /\ UNCHANGED <<start_lock, started, loop>>
                 ELSE /\ lifecycle' = [op |-> "none", pc |-> "idle", idx |-> 0]
                      /\ start_lock' = "free"
                      /\ started' = TRUE
                      /\ loop' = [pc |-> "acquire", idx |-> 1, cancel |-> FALSE, err |-> "none"]
    /\ UNCHANGED <<now, fsm, applied, initialized, calls, rpc>>

\* stop(): under _start_lock; it cancels the loop's task and awaits it.
StopCall ==
    /\ lifecycle.pc = "idle" /\ start_lock = "free"
    /\ IF ~started
       THEN UNCHANGED <<start_lock, lifecycle, loop>>
       ELSE /\ start_lock' = "stop"
            /\ lifecycle' = [op |-> "stop", pc |-> "gather", idx |-> 0]
            /\ loop' = [loop EXCEPT !.cancel = TRUE]
    /\ UNCHANGED <<data, now, fsm, applied, initialized, calls, started, group_locks, running, rpc>>

\* stop() clearing _started without awaiting the cancelled task (a faulty variant).
StopReturn_without_gather ==
    /\ lifecycle.op = "stop" /\ lifecycle.pc = "gather"
    /\ started' = FALSE
    /\ start_lock' = "free"
    /\ lifecycle' = [op |-> "none", pc |-> "idle", idx |-> 0]
    /\ UNCHANGED <<data, now, fsm, applied, initialized, calls, group_locks, running, loop, rpc>>

\* stop(): the cancelled task has ended; _started is cleared.
StopReturn ==
    /\ lifecycle.op = "stop" /\ lifecycle.pc = "gather" /\ loop.pc = "none"
    /\ started' = FALSE
    /\ start_lock' = "free"
    /\ lifecycle' = [op |-> "none", pc |-> "idle", idx |-> 0]
    /\ UNCHANGED <<data, now, fsm, applied, initialized, calls, group_locks, running, loop, rpc>>

\* _reconcile_loop: `async with lock:` of the next group of the tick.
ReconcileLoopAcquire ==
    /\ loop.pc = "acquire" /\ ~loop.cancel
    /\ Acquire(GroupOrder[loop.idx], LoopTask)
    /\ loop' = [loop EXCEPT !.pc = "reconcile"]
    /\ UNCHANGED <<data, now, fsm, applied, initialized, calls, started, start_lock, lifecycle, rpc>>

\* _reconcile_loop letting the exception of reconcile_group out of the task (a faulty
\* variant).
reconcile_loop_raising(err) ==
    IF err # "none" THEN [pc |-> "none", idx |-> 0, cancel |-> FALSE, err |-> err]
    ELSE IF loop.idx < Len(GroupOrder) THEN [loop EXCEPT !.pc = "acquire", !.idx = @ + 1]
    ELSE [loop EXCEPT !.pc = "sleep", !.idx = 0]

\* _reconcile_loop after reconcile_group returned (err = "none") or raised err: the next
\* group of the tick, or the sleep that ends the tick; an exception is logged and ends
\* the tick.
reconcile_loop(err) ==
    IF err = "none" /\ loop.idx < Len(GroupOrder)
    THEN [loop EXCEPT !.pc = "acquire", !.idx = @ + 1]
    ELSE [loop EXCEPT !.pc = "sleep", !.idx = 0, !.err = err]

\* _reconcile_loop: reconcile_group under the group's mutex.
ReconcileLoopReconcile ==
    /\ loop.pc = "reconcile" /\ ~loop.cancel
    /\ \E g \in {GroupOrder[loop.idx]}, f \in FaultsNow(TargetSizeFaults) :
          \E w \in {reconcile_group(World, g, f)} :
              /\ Apply(w) /\ Faulty(f)
              /\ Release(g, LoopTask)
              /\ loop' = reconcile_loop(w.err)
    /\ UNCHANGED <<now, fsm, applied, initialized, calls, started, start_lock, lifecycle, rpc>>

\* _reconcile_loop: asyncio.sleep(reconcile_interval_seconds) is over.
ReconcileLoopWake ==
    /\ loop.pc = "sleep" /\ ~loop.cancel
    /\ loop' = [loop EXCEPT !.pc = "acquire", !.idx = 1, !.err = "none"]
    /\ UNCHANGED <<data, now, fsm, applied, initialized, calls, started, start_lock, group_locks, running, lifecycle, rpc>>

\* The cancelled task ending without leaving its `async with` block (a faulty variant).
ReconcileLoopCancelled_keeping_mutex ==
    /\ loop.pc # "none" /\ loop.cancel
    /\ loop' = [pc |-> "none", idx |-> 0, cancel |-> FALSE, err |-> "none"]
    /\ UNCHANGED <<data, now, fsm, applied, initialized, calls, started, start_lock, group_locks, running, lifecycle, rpc>>

\* _reconcile_loop: CancelledError is raised at the await the task is suspended at; a
\* mutex it holds is released and the task ends.
ReconcileLoopCancelled ==
    /\ loop.pc # "none" /\ loop.cancel
    /\ IF loop.pc = "reconcile"
       THEN Release(GroupOrder[loop.idx], LoopTask)
       ELSE UNCHANGED <<group_locks, running>>
    /\ loop' = [pc |-> "none", idx |-> 0, cancel |-> FALSE, err |-> "none"]
    /\ UNCHANGED <<data, now, fsm, applied, initialized, calls, started, start_lock, lifecycle, rpc>>

\* A client calls a facade operation of group g: _with_group_lock looks the mutex up.
RpcCall(c) ==
    /\ rpc[c].pc = "idle" /\ calls < MaxCalls
    /\ calls' = calls + 1
    /\ \E g \in Groups : rpc' = [rpc EXCEPT ![c] = [pc |-> "acquire", group |-> g]]
    /\ UNCHANGED <<data, now, fsm, applied, initialized, started, start_lock, group_locks, running, lifecycle, loop>>

\* _with_group_lock: `async with lock:`.
RpcAcquire(c) ==
    /\ rpc[c].pc = "acquire"
    /\ Acquire(rpc[c].group, RpcTask(c))
    /\ rpc' = [rpc EXCEPT ![c].pc = "run"]
    /\ UNCHANGED <<data, now, fsm, applied, initialized, calls, started, start_lock, lifecycle, loop>>

\* _with_group_lock: fn() has returned or raised and the mutex is released.
RpcReturn(c) ==
    /\ rpc[c].pc = "run"
    /\ Release(rpc[c].group, RpcTask(c))
    /\ rpc' = [rpc EXCEPT ![c] = [pc |-> "idle", group |-> ""]]
    /\ UNCHANGED <<now, fsm, applied, initialized, calls, started, start_lock, lifecycle, loop>>

RpcTargetSize == \E c \in Clients : RpcReturn(c) /\ DoTargetSize(rpc[c].group)

RpcIncreaseSize == \E c \in Clients : RpcReturn(c) /\ DoIncreaseSize(rpc[c].group)

RpcDecreaseTargetSize == \E c \in Clients : RpcReturn(c) /\ DoDecreaseTargetSize(rpc[c].group)

RpcDeleteNodes == \E c \in Clients : RpcReturn(c) /\ DoDeleteNodes(rpc[c].group)

RpcNodes == \E c \in Clients : RpcReturn(c) /\ DoNodes(rpc[c].group)

\* node_group_template_node_bytes reads the node list and writes nothing.
RpcTemplate == \E c \in Clients : RpcReturn(c) /\ UNCHANGED data

NextTasks ==
    \/ StartCall
    \/ StartAcquire
    \/ StartBootstrap
    \/ StopCall
    \/ StopReturn
    \/ ReconcileLoopAcquire
    \/ ReconcileLoopReconcile
    \/ ReconcileLoopWake
    \/ ReconcileLoopCancelled
    \/ \E c \in Clients : RpcCall(c)
    \/ \E c \in Clients : RpcAcquire(c)
    \/ RpcTargetSize
    \/ RpcIncreaseSize
    \/ RpcDecreaseTargetSize
    \/ RpcDeleteNodes
    \/ RpcNodes
    \/ RpcTemplate
    \/ \E v \in Vmids : VmVanishes(v)

SpecTasks == Init /\ [][NextTasks]_vars

\* ------------------------------------------------------------------ claims
\* C1: for every group, at most one task is inside an operation of the group
\* (reconcile_group, bootstrap_group or a facade operation), whatever start(), stop(), the
\* RPC handlers and the reconcile loop do.
C1_OneOperationPerGroup == \A g \in Groups : Cardinality(running[g]) <= 1

\* C1 witness: the reconcile loop is inside reconcile_group of a group while an RPC
\* handler for the same group waits for the mutex, after another handler has already
\* been served.
C1_Witness ==
    \E g \in Groups : \E c \in Clients :
        /\ running[g] = {LoopTask}
        /\ rpc[c].pc = "acquire" /\ rpc[c].group = g
        /\ calls = MaxCalls

\* The outcomes of the operations that can run for group g in the current state, one for
\* every input and every failure the environment can still inject.
TargetSizeOutcomes(g) ==
    {node_group_target_size(World, g, f) : f \in FaultsNow(TargetSizeFaults)}

IncreaseSizeOutcomes(g) ==
    {node_group_increase_size(World, g, delta, f) : delta \in Deltas, f \in FaultsNow(ScalingFaults)}

DecreaseTargetSizeOutcomes(g) ==
    {node_group_decrease_target_size(World, g, delta, f) :
        delta \in Deltas, f \in FaultsNow(ScalingFaults)}

DeleteNodesOutcomes(g) ==
    {node_group_delete_nodes(World, g, entries, f) :
        entries \in NodeLists, f \in FaultsNow(DeleteNodesFaults)}

NodesOutcomes(g) == {node_group_nodes(World, g, f) : f \in FaultsNow(ScalingFaults)}

BootstrapOutcomes(g) == {bootstrap_group(World, g, f) : f \in FaultsNow(ScalingFaults)}

ReconcileOutcomes(g) == {reconcile_group(World, g, f) : f \in FaultsNow(Faults)}

Outcomes(g) ==
    TargetSizeOutcomes(g) \cup IncreaseSizeOutcomes(g) \cup DecreaseTargetSizeOutcomes(g)
        \cup DeleteNodesOutcomes(g) \cup NodesOutcomes(g) \cup BootstrapOutcomes(g)
        \cup ReconcileOutcomes(g)

\* C2: whatever operation runs next, for whatever group, none of its writes replaces a row
\* whose state is deleting_vm, deleting_iso or deleting_node by a row whose state is
\* pending or active.
C2_DeletingNeverRevived ==
    \A g \in Groups : \A w \in Outcomes(g) : \A wr \in w.writes :
        is_delete_state(wr.old_state) => wr.state \notin {STATE_PENDING, STATE_ACTIVE}

\* C3: whatever operation runs next, for whatever group, none of its writes replaces a row
\* by a row with another group_id.
C3_GroupIdNeverChanges ==
    \A g \in Groups : \A w \in Outcomes(g) : \A wr \in w.writes :
        wr.old_group # "absent" => wr.group_id = wr.old_group

\* C4: every persisted row in state pending carries a pending_since, and every row in
\* state active or in a deleting state carries none.
C4_PendingSince ==
    \A v \in DOMAIN vm_states :
        /\ vm_states[v].state = STATE_PENDING => vm_states[v].pending_since # None
        /\ vm_states[v].state \in {STATE_ACTIVE} \cup DELETE_STATES
               => vm_states[v].pending_since = None

\* C4 witness: the row of a VM the provider created (written pending, with its
\* pending_since) is active and carries no pending_since, beside a row in the delete
\* pipeline.
C4_Witness ==
    /\ \E v \in DOMAIN vm_states :
           /\ vm_states[v].state = STATE_ACTIVE /\ vm_states[v].pending_since = None
           /\ vm_states[v].vm_name = VmName(vm_states[v].group_id, v)
    /\ \E v \in DOMAIN vm_states :
           is_delete_state(vm_states[v].state) /\ vm_states[v].pending_since = None

\* The operations of group g that may write the ledger.
LedgerOutcomes(g) ==
    TargetSizeOutcomes(g) \cup IncreaseSizeOutcomes(g) \cup DecreaseTargetSizeOutcomes(g)
        \cup DeleteNodesOutcomes(g) \cup BootstrapOutcomes(g) \cup ReconcileOutcomes(g)

\* C5: whatever ledger-writing operation runs next and succeeds, the desired_size it
\* leaves persisted for its group lies within [min_size, max_size].
C5_DesiredWithinBounds ==
    \A g \in Groups : \A w \in LedgerOutcomes(g) :
        w.err = "none" /\ g \in DOMAIN w.group_sizes
            => /\ settings[g].min_size <= w.group_sizes[g]
               /\ w.group_sizes[g] <= settings[g].max_size

\* The world a later operation starts from when an operation ended in w.
After(w) == [w EXCEPT !.err = "none", !.ret = None, !.writes = {}, !.calls = NoCalls]

\* The value node_group_target_size(g) returns when it is called in w.
TargetSizeIn(w, g) == node_group_target_size(After(w), g, "none").ret

Clamp(g, n) == Max(settings[g].min_size, Min(settings[g].max_size, n))

\* The number of VMs of group g whose row is in state pending or active.
ManagedCount(w, g) ==
    Cardinality({v \in DOMAIN group_vms(w, g) :
        /\ v \in DOMAIN w.vm_states
        /\ w.vm_states[v].state \in {STATE_PENDING, STATE_ACTIVE}})

\* The successful outcomes of the RPCs that write the ledger entry of g (delete_nodes
\* with an empty list returns before it writes).
MutationOutcomes(g) ==
    {m \in IncreaseSizeOutcomes(g) \cup DecreaseTargetSizeOutcomes(g)
            \cup {node_group_delete_nodes(World, g, entries, f) :
                     entries \in NodeLists \ {<<>>}, f \in FaultsNow(DeleteNodesFaults)} :
        m.err = "none"}

\* The outcomes of everything else that can run: the other operations of g and every
\* operation of another group.
OtherOutcomes(g) ==
    TargetSizeOutcomes(g) \cup NodesOutcomes(g) \cup BootstrapOutcomes(g)
        \cup ReconcileOutcomes(g) \cup UNION {Outcomes(h) : h \in Groups \ {g}}

\* C6: node_group_target_size(g) returns the ledger entry clamped into
\* [min_size, max_size] and leaves an existing entry as it is; a missing entry is first
\* set to max(min_size, number of pending and active VMs of g); right after a successful
\* increase, decrease or delete_nodes it returns the value that call persisted, and no
\* other operation changes an existing entry in between.
C6_TargetSizeReflectsLedger ==
    \A g \in Groups :
        /\ \A w \in TargetSizeOutcomes(g) :
               w.err = "none" =>
                   /\ w.ret >= settings[g].min_size /\ w.ret <= settings[g].max_size
                   /\ w.ret = Clamp(g, w.group_sizes[g])
                   /\ g \in DOMAIN group_sizes => w.group_sizes[g] = group_sizes[g]
                   /\ g \notin DOMAIN group_sizes =>
                          w.group_sizes[g] = Max(settings[g].min_size, ManagedCount(w, g))
        /\ \A m \in MutationOutcomes(g) : TargetSizeIn(m, g) = m.group_sizes[g]
        /\ \A w \in OtherOutcomes(g) :
               g \in DOMAIN group_sizes =>
                   g \in DOMAIN w.group_sizes /\ w.group_sizes[g] = group_sizes[g]

\* C6 witness: the ledger of a group differs from the number of its VMs, a successful
\* increase raises it by one, and node_group_target_size then returns the raised value.
C6_Witness ==
    \E g \in Groups :
        /\ g \in DOMAIN group_sizes
        /\ group_sizes[g] # Cardinality(DOMAIN group_vms(World, g))
        /\ \E m \in MutationOutcomes(g) :
               /\ m.group_sizes[g] = group_sizes[g] + 1
               /\ TargetSizeIn(m, g) = group_sizes[g] + 1

\* No row is in a deleting state in w that was not in one before the operation.
NoDeletionRequested(w) ==
    \A v \in DOMAIN w.vm_states :
        is_delete_state(w.vm_states[v].state)
            => v \in DOMAIN vm_states /\ is_delete_state(vm_states[v].state)

C10_NotFoundLeavesLedger ==
    \A g \in Groups : \A entries \in NodeLists : \A f \in FaultsNow(DeleteNodesFaults) :
        LET w == node_group_delete_nodes(World, g, entries, f)
        IN w.err = "NotFound" => w.vm_states = vm_states /\ w.group_sizes = group_sizes

\* ------------------------------------------------------ lifecycle machine
\* The lifecycle machine applied on its own: transition_state is called with the state
\* the last call produced (a call that raises leaves the state where it was) and any
\* event name.
FsmStates == LIFECYCLE_STATES \cup {STATE_COMPLETED}

EventNames ==
    {EVENT_BECAME_ACTIVE, EVENT_BECAME_PENDING, EVENT_REQUEST_DELETE, EVENT_INFRA_MISSING,
     EVENT_VM_DONE, EVENT_VM_RETRY, EVENT_ISO_DONE, EVENT_ISO_RETRY, EVENT_NODE_DONE,
     EVENT_NODE_RETRY, "mark_failed", "no_such_event"}

InitMachine ==
    /\ InitData /\ InitTasks /\ InitCall
    /\ fsm \in {[state |-> s, event |-> "", result |-> "", n |-> 0] : s \in FsmStates}

TransitionState ==
    /\ fsm.n < MaxTransitions
    /\ \E event \in EventNames :
          LET state == IF fsm.result \in FsmStates THEN fsm.result ELSE fsm.state
          IN fsm' = [state |-> state, event |-> event,
                     result |-> transition_state(state, event), n |-> fsm.n + 1]
    /\ UNCHANGED <<ledger, infra, now, events, tasks, applied>>

NextMachine == TransitionState

SpecMachine == InitMachine /\ [][NextMachine]_vars

\* The legal-transition table: state -> event -> target.
LegalTransitions ==
    [pending |-> [became_active |-> "active", became_pending |-> "pending",
                  request_delete |-> "deleting_vm", infra_missing |-> "completed"],
     active |-> [became_active |-> "active", became_pending |-> "pending",
                 request_delete |-> "deleting_vm", infra_missing |-> "completed"],
     failed |-> [request_delete |-> "deleting_vm", infra_missing |-> "completed"],
     deleting_vm |-> [request_delete |-> "deleting_vm", infra_missing |-> "deleting_iso",
                      vm_done |-> "deleting_iso", vm_retry |-> "deleting_vm"],
     deleting_iso |-> [request_delete |-> "deleting_iso", infra_missing |-> "deleting_iso",
                       iso_done |-> "deleting_node", iso_retry |-> "deleting_iso"],
     deleting_node |-> [request_delete |-> "deleting_node", infra_missing |-> "deleting_node",
                        node_done |-> "completed", node_retry |-> "deleting_node"]]

Legal(state, event) ==
    state \in DOMAIN LegalTransitions /\ event \in DOMAIN LegalTransitions[state]

\* C11: for every (state, event) pair of the legal-transition table transition_state
\* returns the table's target state, and it returns completed exactly for
\* (deleting_node, node_done) and for infra_missing from pending, active or failed.
C11_TransitionTable ==
    fsm.event # "" =>
        /\ Legal(fsm.state, fsm.event) => fsm.result = LegalTransitions[fsm.state][fsm.event]
        /\ fsm.result = STATE_COMPLETED <=>
              \/ fsm.state = STATE_DELETING_NODE /\ fsm.event = EVENT_NODE_DONE
              \/ /\ fsm.event = EVENT_INFRA_MISSING
                 /\ fsm.state \in {STATE_PENDING, STATE_ACTIVE, STATE_FAILED}

\* A record that was driven to deleting_node and completed by node_done.
C11_Witness ==
    /\ fsm.n = MaxTransitions
    /\ fsm.state = STATE_DELETING_NODE /\ fsm.event = EVENT_NODE_DONE
    /\ fsm.result = STATE_COMPLETED

\* C12: for every (state, event) combination that is not in the legal-transition table,
\* any event name other than the ten included, transition_state fails with an
\* invalid-transition error and returns no state.
C12_IllegalFails ==
    (fsm.event # "" /\ ~Legal(fsm.state, fsm.event)) => fsm.result = InvalidTransition

\* reconcile_group(g) run next, with the collaborator call that fails in it.
ReconcileRuns(g) == {[f |-> f, w |-> reconcile_group(World, g, f)] : f \in FaultsNow(Faults)}

\* The operations that run no step of the delete pipeline.
FacadeAndBootstrapOutcomes(g) ==
    TargetSizeOutcomes(g) \cup IncreaseSizeOutcomes(g) \cup DecreaseTargetSizeOutcomes(g)
        \cup DeleteNodesOutcomes(g) \cup NodesOutcomes(g) \cup BootstrapOutcomes(g)

\* A record enters deleting_iso from deleting_vm, and only when the VM was not listed or
\* stop_and_delete_vm was called for it and did not fail.
EntersDeletingIso(w, g, stopped) ==
    \A wr \in w.writes :
        (wr.state = STATE_DELETING_ISO /\ wr.old_state # STATE_DELETING_ISO) =>
            /\ wr.old_state = STATE_DELETING_VM
            /\ \/ wr.vmid \notin DOMAIN group_vms(World, g)
               \/ wr.vmid \in stopped

\* C13: the external effects of the delete pipeline happen in the order VM, seed ISO,
\* Kubernetes node. Whatever operation runs next: delete_storage_volume is called only by
\* the step of a record in deleting_iso, for the record's captured volume, and a record
\* enters deleting_iso only from deleting_vm once stop_and_delete_vm succeeded for its
\* vmid or the VM was not listed; the pipeline's delete_node runs only for a record that
\* was in deleting_node, which a record enters only from deleting_iso with iso_done; a
\* record in a deleting state is removed only from deleting_node after delete_node
\* succeeded for its vm_name.
C13_DeleteOrder ==
    \A g \in Groups :
        /\ \A r \in ReconcileRuns(g) :
              /\ \A vol \in r.w.calls.delete_storage_volume :
                    \E st \in r.w.steps : st.state = STATE_DELETING_ISO /\ st.cleanup = vol
              /\ EntersDeletingIso(r.w, g, IF r.f = "stop_and_delete_vm" THEN {}
                                           ELSE r.w.calls.stop_and_delete_vm)
              /\ \A wr \in r.w.writes :
                    (wr.state = STATE_DELETING_NODE /\ wr.old_state # STATE_DELETING_NODE) =>
                        /\ wr.old_state = STATE_DELETING_ISO
                        /\ \E st \in r.w.steps :
                              /\ st.vmid = wr.vmid /\ st.state = STATE_DELETING_ISO
                              /\ st.event = EVENT_ISO_DONE
              /\ \A st \in r.w.steps :
                    st.event \in {EVENT_NODE_DONE, EVENT_NODE_RETRY} =>
                        /\ st.vmid \in DOMAIN vm_states
                        /\ vm_states[st.vmid].state = STATE_DELETING_NODE
              /\ \A rm \in r.w.removed :
                    is_delete_state(rm.old_state) =>
                        /\ rm.old_state = STATE_DELETING_NODE
                        /\ r.f # "delete_node"
                        /\ \E st \in r.w.steps :
                              /\ st.vmid = rm.vmid /\ st.event = EVENT_NODE_DONE
                              /\ st.vm_name \in r.w.calls.delete_node
        /\ \A w \in FacadeAndBootstrapOutcomes(g) :
              /\ w.calls = NoCalls /\ w.steps = {}
              /\ EntersDeletingIso(w, g, {})
              /\ \A wr \in w.writes :
                    wr.state = STATE_DELETING_NODE => wr.old_state = STATE_DELETING_NODE
              /\ \A rm \in w.removed : ~is_delete_state(rm.old_state)

\* A reconcile tick deletes the captured seed ISO of one record and, for another record,
\* deletes the node and removes the record.
C13_Witness ==
    \E g \in Groups : \E r \in ReconcileRuns(g) :
        /\ r.w.calls.delete_storage_volume # {}
        /\ \E rm \in r.w.removed : rm.old_state = STATE_DELETING_NODE

\* reconcile_group(g) run after an operation that ended in w, every collaborator call
\* succeeding.
NextTick(w, g) == reconcile_group(After(w), g, "none")

StateIn(w, vmid) == IF vmid \in DOMAIN w.vm_states THEN w.vm_states[vmid].state ELSE "absent"

\* C14: with collaborators that always succeed, a record of group g in deleting_vm whose VM
\* is still listed is in deleting_iso after the next reconcile_group(g), in deleting_node
\* after the second and removed after the third.
C14_ThreeTicks ==
    \A g \in Groups : \A v \in DOMAIN vm_states :
        (/\ vm_states[v].group_id = g /\ vm_states[v].state = STATE_DELETING_VM
         /\ v \in DOMAIN group_vms(World, g)) =>
            \E w1 \in {NextTick(World, g)} : \E w2 \in {NextTick(w1, g)} :
                /\ StateIn(w1, v) = STATE_DELETING_ISO
                /\ StateIn(w2, v) = STATE_DELETING_NODE
                /\ StateIn(NextTick(w2, g), v) = "absent"

\* The write that promotes record vmid: pending -> active, pending_since and last_error
\* cleared.
Promoted(w, vmid) ==
    \E wr \in w.writes :
        /\ wr.vmid = vmid /\ wr.old_state = STATE_PENDING /\ wr.state = STATE_ACTIVE
        /\ wr.pending_since = None /\ wr.last_error = "none"

\* Some write of w makes record vmid active.
MadeActive(w, vmid) == \E wr \in w.writes : wr.vmid = vmid /\ wr.state = STATE_ACTIVE

\* The Kubernetes snapshot has a Ready node with the group's label that matches the VM by
\* its vmid label or by its name.
ReadyNodeFor(g, vmid, nodes) ==
    \E n \in nodes :
        /\ n.group = g
        /\ (n.vmid = vmid \/ n.name = pve_vms[vmid].name)
        /\ n.ready

RemovedByLaterTicks(w, g, vmid, delta) ==
    \E w1 \in {NextTick(w, g)} :
    \E w2 \in {NextTick(node_group_increase_size(After(w1), g, delta, "none"), g)} :
    \E w3 \in {NextTick(w2, g)} : \E w4 \in {NextTick(w3, g)} :
        (w1.err = "none" /\ w2.err = "none" /\ w3.err = "none" /\ w4.err = "none")
            => StateIn(w4, vmid) = "absent"

\* C16: in a reconcile tick of group g that lists the VMs, a listed pending record of g
\* that is not promotable and whose age now - pending_since has reached
\* pending_vm_timeout_seconds has its deletion requested (pending -> deleting_vm) and is
\* not counted as managed, and with succeeding collaborators the later ticks remove the
\* record, whatever size increase the autoscaler asks for meanwhile; a pending record
\* younger than the timeout is counted as managed.
C16_PendingTimeout ==
    \A g \in Groups : \A v \in DOMAIN group_vms(World, g) :
        (/\ v \in DOMAIN vm_states
         /\ vm_states[v].group_id = g /\ vm_states[v].state = STATE_PENDING) =>
            \A r \in ReconcileRuns(g) :
                (/\ r.f # "list_vms"
                 /\ ~(/\ pve_vms[v].status = "running"
                      /\ ReadyNodeFor(g, v, IF r.f = "list_nodes" THEN {} ELSE kube_nodes))) =>
                    IF now - vm_states[v].pending_since >= pending_vm_timeout_seconds
                    THEN /\ \E wr \in r.w.writes :
                               /\ wr.vmid = v /\ wr.old_state = STATE_PENDING
                               /\ wr.state = STATE_DELETING_VM
                         /\ v \notin DOMAIN r.w.managed
                         /\ (r.f = "none" /\ r.w.err = "none") =>
                               \A delta \in 0..MaxDelta : RemovedByLaterTicks(r.w, g, v, delta)
                    ELSE /\ v \in DOMAIN r.w.managed
                         /\ r.w.managed[v] = STATE_PENDING

\* The VMs created by the operation that ended in w.
Created(w) == w.calls.create_vm_from_image

\* C17: in a reconcile tick of group g whose collaborator calls all succeed, with `managed`
\* the VMs counted as managed by the observation pass and desired the desired size after
\* the tick's initialisation and clamping to [min_size, max_size]: when
\* len(managed) < desired, exactly desired - len(managed) VMs are created, each has a
\* persisted record of the group in state pending with a non-null pending_since, and no
\* write of the tick requests the deletion of a managed VM; when len(managed) >= desired,
\* no VM is created.
C17_CreateToDesired ==
    \A g \in Groups : \A r \in ReconcileRuns(g) :
        (r.f = "none" /\ r.w.err = "none") =>
            LET count == Cardinality(DOMAIN r.w.managed)
                desired == Clamp(g, r.w.group_sizes[g])
            IN IF count < desired
               THEN /\ Cardinality(Created(r.w)) = desired - count
                    /\ \A v \in Created(r.w) :
                          /\ v \in DOMAIN r.w.vm_states
                          /\ r.w.vm_states[v].group_id = g
                          /\ r.w.vm_states[v].state = STATE_PENDING
                          /\ r.w.vm_states[v].pending_since # None
                    /\ \A wr \in r.w.writes :
                          wr.vmid \in DOMAIN r.w.managed => wr.state # STATE_DELETING_VM
               ELSE Created(r.w) = {}

\* A tick that creates two VMs at once.
C17_Witness ==
    \E g \in Groups : \E r \in ReconcileRuns(g) :
        /\ r.f = "none" /\ r.w.err = "none"
        /\ Cardinality(Created(r.w)) = 2

\* One pass of the reconcile loop over the groups, every collaborator call succeeding,
\* after the pass x: the world it ends in and whether every reconcile_group so far
\* completed without an exception.
LoopPass(x) ==
    LET wa == NextTick(x.w, GroupOrder[1])
        wb == NextTick(wa, GroupOrder[2])
    IN [w |-> wb, ok |-> x.ok /\ wa.err = "none" /\ wb.err = "none"]

\* The number of VMs of group g whose record is pending or active equals desired_size.
Converged(w, g) == g \in DOMAIN w.group_sizes /\ ManagedCount(w, g) = w.group_sizes[g]

\* C18: with collaborators that always succeed and no RPC in between, the number of VMs of
\* group g whose record is pending or active equals desired_size after one pass of the
\* reconcile loop when the group has to grow, and after at most as many passes as the
\* group has VMs (and at least one) otherwise, and it is still equal after every later pass.
C18_Convergence ==
    \A g \in Groups :
        \E w1 \in {LoopPass([w |-> World, ok |-> TRUE])} :
        \E w2 \in {LoopPass(w1)} : \E w3 \in {LoopPass(w2)} :
            LET n == Cardinality(DOMAIN group_vms(World, g))
                grow == g \in DOMAIN group_sizes /\ n < group_sizes[g]
            IN w3.ok =>
                  /\ (grow \/ n <= 1) => Converged(w1.w, g)
                  /\ n <= 2 => Converged(w2.w, g)
                  /\ Converged(w3.w, g)

\* ---------------------------------------------------------------------------------
\* The reconcile loop and exceptions.

\* The task interleaving with the timer of asyncio.sleep firing and a cancellation
\* being delivered: the event loop resumes a task whose await is over.
SpecTasksFair ==
    SpecTasks /\ WF_vars(ReconcileLoopWake) /\ WF_vars(ReconcileLoopCancelled)

\* The reconcile task is over although nothing cancelled it.
LoopEndsUncancelled == loop.pc # "none" /\ loop'.pc = "none" /\ ~loop.cancel

\* C19: an exception of reconcile_group never ends the reconcile loop. Once
\* reconcile_group has raised, the loop task holds no group mutex and is in the sleep
\* that ends the tick; the task ends only in a step taken while stop() has cancelled it;
\* and after the exception the loop gets to the first group of the next tick unless it
\* is cancelled first.
C19_LoopSurvivesExceptions ==
    /\ [](loop.err # "none" =>
            /\ loop.pc = "sleep"
            /\ \A g \in Groups : group_locks[g] # LoopTask)
    /\ [][~LoopEndsUncancelled]_vars
    /\ (loop.err # "none") ~>
            (\/ loop.pc = "acquire" /\ loop.idx = 1 /\ loop.err = "none"
             \/ loop.pc = "none")

\* reconcile_group has raised in a tick of the running loop, which now sleeps with every
\* mutex free, while nothing has cancelled it.
C19_Witness ==
    /\ loop.err # "none" /\ loop.pc = "sleep" /\ ~loop.cancel /\ started
    /\ \A g \in Groups : ~locked(g)

\* ---------------------------------------------------------------------------------
\* The lifecycle of the orchestrator.

\* The records of group g left without a listed VM and outside the delete pipeline.
Orphans(records, listed, g) ==
    {v \in DOMAIN records :
        /\ records[v].group_id = g
        /\ v \notin listed
        /\ ~is_delete_state(records[v].state)}

\* This step is start() completing bootstrap_group of group g without an exception.
Bootstrapped(g) ==
    /\ lifecycle.op = "start" /\ lifecycle.pc = "bootstrap"
    /\ GroupOrder[lifecycle.idx] = g
    /\ \/ lifecycle'.op = "start" /\ lifecycle'.pc = "acquire"
       \/ started'

\* This step creates the task of _reconcile_loop.
Spawned == loop.pc = "none" /\ loop'.pc # "none"

\* What holds in every state of the lifecycle.
LifecycleInv ==
    \* bootstrap_group runs under the mutex of its group, on an initialised store
    /\ lifecycle.pc = "bootstrap" =>
          /\ group_locks[GroupOrder[lifecycle.idx]] = StartTask
          /\ running[GroupOrder[lifecycle.idx]] = {StartTask}
          /\ initialized
    \* start() does its work only while not started, stop() only while started
    /\ lifecycle.op = "start" => ~started /\ loop.pc = "none"
    /\ lifecycle.op = "stop" => started
    /\ loop.cancel => lifecycle.op = "stop"
    \* the reconcile task lives only while started, on an initialised store with a
    \* desired size for every group
    /\ loop.pc # "none" => started /\ initialized /\ Groups \subseteq DOMAIN group_sizes
    /\ ~started => \A g \in Groups : LoopTask \notin running[g] /\ group_locks[g] # LoopTask

\* What holds of every step of the lifecycle.
LifecycleStep ==
    \* a bootstrap that succeeded left group g a desired size and no orphan record
    /\ \A g \in Groups : Bootstrapped(g) =>
          /\ g \in DOMAIN group_sizes'
          /\ Orphans(vm_states', {v \in DOMAIN pve_vms' : g \in pve_vms'[v].tags}, g) = {}
    \* the groups are bootstrapped one after the other, in the order of the settings
    /\ (lifecycle'.op = "start" /\ lifecycle'.idx # lifecycle.idx) =>
          \/ lifecycle.op = "none" /\ lifecycle'.idx = 1
          \/ Bootstrapped(GroupOrder[lifecycle.idx]) /\ lifecycle'.idx = lifecycle.idx + 1
    \* the task is created by the step that bootstrapped the last group, and only then
    /\ Spawned <=> (~started /\ started')
    /\ Spawned => Bootstrapped(GroupOrder[Len(GroupOrder)]) /\ loop'.pc = "acquire"
    \* stop() returns when the cancelled task is over
    /\ (started /\ ~started') => lifecycle.op = "stop" /\ loop.pc = "none"
    \* start() while started and stop() while not started change nothing
    /\ (lifecycle.op = "none" /\ lifecycle'.op = "start") => ~started
    /\ (lifecycle.op = "none" /\ lifecycle'.op = "stop") => started /\ loop'.cancel

\* C20: start() initialises the store and bootstraps every group in turn, each under its
\* mutex (a desired size is recorded and the records without a VM are dropped or put in
\* the delete pipeline), and only the step completing the last bootstrap creates the
\* reconcile task; start() while started begins nothing and no second task is created;
\* stop() cancels the task and clears _started only once the task is over, after which
\* the loop runs no reconcile_group until start() creates it again; stop() while not
\* started begins nothing.
C20_Lifecycle == []LifecycleInv /\ [][LifecycleStep]_vars

\* start() after a stop(): bootstrap_group is about to run, under the mutex, on a group
\* with a record a previous run of the loop created and whose VM is gone since.
C20_Witness ==
    /\ lifecycle.op = "start" /\ lifecycle.pc = "bootstrap"
    /\ Orphans(vm_states, DOMAIN pve_vms, GroupOrder[lifecycle.idx]) # {}

\* ---------------------------------------------------------------------------------
\* find_vm_for_node on its own.

\* The sequences over alphabet of length at most n.
SeqsUpTo(alphabet, n) == UNION {[1..k -> alphabet] : k \in 0..n}

\* The provider ids and node names the autoscaler may send, and the names of the VMs.
ProviderChars == {"k", "1", "2", "\n"}
ProviderIds == SeqsUpTo(ProviderChars, MaxIdLen)
VmNames == {VmName("a", 1), <<"op", 1>>}
NodeNames == SeqsUpTo({Blank} \cup VmNames, MaxNameLen)

\* The inventories of the hypervisor: every VM carries the tag of one group.
Inventories ==
    UNION {[S -> [name : VmNames, status : {"running"}, tags : {{g} : g \in Groups},
                  ide2 : {OtherIde2}]] : S \in SUBSET Vmids}

InitFind ==
    /\ InitTasks /\ InitFsm /\ InitCall
    /\ vm_states = <<>> /\ group_sizes = <<>> /\ kube_nodes = {}
    /\ now = 0 /\ events = 0
    /\ pve_vms \in Inventories

\* find_vm_for_node(group, node) is applied to the inventory.
FindVmForNode ==
    /\ applied = NoCall
    /\ \E g \in Groups, provider_id \in ProviderIds, name \in NodeNames :
          LET node == [provider_id |-> provider_id, name |-> name]
          IN applied' = [fn |-> "find_vm_for_node", args |-> <<g, node>>,
                         ret |-> <<find_vm_for_node(World, g, node),
                                   vmid_from_provider_id(provider_id)>>]
    /\ UNCHANGED <<ledger, infra, now, events, tasks, fsm>>

NextFind == FindVmForNode

SpecFind == InitFind /\ [][NextFind]_vars

\* The integer written by the digits that end s (None when s does not end in a digit).
TrailingInteger(s) ==
    IF s = <<>> \/ ~IsDigit(s[Len(s)]) THEN None
    ELSE IntOf(SubSeq(s, RunStart(s, Len(s)), Len(s)))

\* C21: find_vm_for_node(G, node) returns the VM of G whose vmid is the trailing integer
\* of node.provider_id when G has such a VM, otherwise a VM of G whose name is node.name
\* exactly, otherwise nothing; the VM returned carries G's tag; vmid_from_provider_id
\* returns nothing when the provider id does not end in digits.
C21_FindVmForNode ==
    applied.fn = "find_vm_for_node" =>
        LET g == applied.args[1]
            node == applied.args[2]
            found == applied.ret[1]
            of_group == {v \in DOMAIN pve_vms : g \in pve_vms[v].tags}
            vmid == TrailingInteger(node.provider_id)
            named == {v \in of_group : <<pve_vms[v].name>> = node.name}
        IN /\ IF vmid # None /\ vmid \in of_group THEN found = vmid
              ELSE IF named # {} THEN found \in named
              ELSE found = None
           /\ found # None => found \in of_group
           /\ vmid = None => applied.ret[2] = None

\* ---------------------------------------------------------------------------------
\* The delete pipeline of a VM whose ide2 entry is anything.

Ide2Tokens == {"local", ":", "iso/", "seed-", ".iso", ",", " "}
Ide2Strings == SeqsUpTo(Ide2Tokens, MaxIde2Len)

\* The VM the pipeline is about, and the node reference the autoscaler names it by.
SeedVm == 1
SeedGroup == "a"
SeedNode == [provider_id |-> ProviderId(SeedVm), name |-> <<>>]

\* The group has one running VM, not yet in the ledger; its ide2 entry is anything.
InitSeed ==
    /\ InitTasks /\ InitFsm
    /\ vm_states = <<>> /\ group_sizes = <<>> /\ kube_nodes = {}
    /\ now = 0 /\ events = 0
    /\ \E ide2 \in Ide2Strings :
          /\ pve_vms = Put(<<>>, SeedVm, [name |-> VmName(SeedGroup, SeedVm), status |-> "running",
                                           tags |-> {SeedGroup}, ide2 |-> ide2])
          /\ applied = [fn |-> "delete_storage_volume", args |-> <<ide2>>, ret |-> {}]

\* The volumes passed to delete_storage_volume so far are kept in applied.ret.
Deleted(w) == applied' = [applied EXCEPT !.ret = @ \cup w.calls.delete_storage_volume]

\* node_group_delete_nodes names the VM; reading its config may fail.
SeedDeleteNodes ==
    /\ SeedVm \in DOMAIN pve_vms
    /\ \E f \in FaultsNow({"none", "attached_seed_iso"}) :
          \E w \in {node_group_delete_nodes(World, SeedGroup, <<SeedNode>>, f)} :
              Apply(w) /\ Faulty(f) /\ Deleted(w)
    /\ UNCHANGED <<now, tasks, fsm>>

\* A tick of the group.
SeedReconcileGroup ==
    /\ \E f \in {"none"} :
          \E w \in {reconcile_group(World, SeedGroup, f)} :
              Apply(w) /\ Faulty(f) /\ Deleted(w)
    /\ UNCHANGED <<now, tasks, fsm>>

NextSeed == SeedDeleteNodes \/ SeedReconcileGroup

SpecSeed == InitSeed /\ [][NextSeed]_vars

\* volume is iso/<filename> with a filename that starts with seed- and ends with .iso
IsSeedIso(volume) ==
    /\ Len(volume) >= 3
    /\ volume[1] = "iso/" /\ volume[2] = "seed-" /\ volume[Len(volume)] = ".iso"

\* volume is what ide2 holds after its first ":", before any ",".
IsVolumeOf(ide2, volume) ==
    \E i \in 1..Len(ide2) :
        /\ SubSeq(ide2, i, i + Len(volume) - 1) = volume
        /\ \A k \in 1..(i + Len(volume) - 1) : ide2[k] # ","
        /\ \E k \in 1..(i - 1) : ide2[k] = ":" /\ \A j \in (k + 1)..(i - 1) : ide2[j] = " "

StatusCodes == {"OK", "NOT_FOUND", "INVALID_ARGUMENT", "FAILED_PRECONDITION", "UNAVAILABLE"}

\* The group ids a request may carry: the configured ones and one that is not.
RequestIds == Groups \cup {"missing"}

\* isinstance(exc, cls): the error kinds are classes of their own.
isinstance(exc, cls) == exc = cls

\* _map_error: the calls of context.abort in the order of the code, were none to raise.
aborts(exc) ==
    (IF isinstance(exc, "GroupNotFound") THEN <<"NOT_FOUND">> ELSE <<>>)
    \o (IF isinstance(exc, "InvalidArgument") THEN <<"INVALID_ARGUMENT">> ELSE <<>>)
    \o (IF isinstance(exc, "FailedPrecondition") THEN <<"FAILED_PRECONDITION">> ELSE <<>>)
    \o (IF isinstance(exc, "NotFound") THEN <<"NOT_FOUND">> ELSE <<>>)
    \o <<"UNAVAILABLE">>

\* _map_error with a context.abort that returns: the status is the last one set (a
\* faulty variant).
map_error_falling_through(exc) == aborts(exc)[Len(aborts(exc))]

\* _map_error: context.abort raises, so the first call ends the handler.
map_error(exc) == Head(aborts(exc))

\* _with_group_lock: an unknown group id raises GroupNotFoundError before any operation.
with_group_lock(id, w) == IF id \notin Groups THEN Raise(World, "GroupNotFound") ELSE w

\* _call_or_abort and the handler's return: the call of an RPC ends with a status, and
\* with a response when the handler returned one.
call_or_abort(w) ==
    IF w.err = "none" THEN [code |-> "OK", response |-> TRUE, err |-> w.err]
    ELSE [code |-> map_error(w.err), response |-> FALSE, err |-> w.err]

\* The handlers with an orchestrator call under a group mutex, for request id `id`.
Handlers(id) ==
    {call_or_abort(with_group_lock(id, w)) :
        w \in IF id \in Groups
              THEN TargetSizeOutcomes(id) \cup IncreaseSizeOutcomes(id)
                     \cup DecreaseTargetSizeOutcomes(id) \cup DeleteNodesOutcomes(id)
                     \cup NodesOutcomes(id)
              ELSE {World}}

\* The status the taxonomy gives an error.
StatusOf(err) ==
    CASE err \in {"GroupNotFound", "NotFound"} -> "NOT_FOUND"
      [] err = "InvalidArgument" -> "INVALID_ARGUMENT"
      [] err = "FailedPrecondition" -> "FAILED_PRECONDITION"
      [] OTHER -> "UNAVAILABLE"

\* C23: whatever RPC is called next, with whatever request: when the orchestrator call
\* raised, the handler returns no response and ends with the one status of the error
\* (GroupNotFound and NotFound: NOT_FOUND, InvalidArgument: INVALID_ARGUMENT,
\* FailedPrecondition: FAILED_PRECONDITION, anything else: UNAVAILABLE); when it did not
\* raise, the handler returns its response.
C23_ErrorMapping ==
    \A id \in RequestIds : \A r \in Handlers(id) :
        /\ r.code \in StatusCodes
        /\ r.response <=> r.err = "none"
        /\ r.response <=> r.code = "OK"
        /\ r.err # "none" => r.code = StatusOf(r.err)

\* With VMs in the ledger, the errors the next RPC can end with cover every status.
C23_Witness ==
    /\ vm_states # <<>>
    /\ {r.code : r \in UNION {Handlers(id) : id \in RequestIds}} = StatusCodes

\* ---------------------------------------------------------------------------------
\* parse_tags on its own.

\* A tag string is a sequence of characters; NoText is None.
NoText == <<"None">>
TagChars == {"a", "b", " ", ",", ";"}
TagStrings == SeqsUpTo(TagChars, MaxTagsLen) \cup {NoText}

\* str.replace(old, new)
replace(s, old, new) == [i \in 1..Len(s) |-> IF s[i] = old THEN new ELSE s[i]]

\* str.split(sep)
RECURSIVE split(_, _)
split(s, sep) ==
    LET k == Find(s, sep, 1)
    IN IF k > Len(s) THEN <<s>>
       ELSE <<SubSeq(s, 1, k - 1)>> \o split(SubSeq(s, k + 1, Len(s)), sep)

\* sep.join(parts)
RECURSIVE join(_, _)
join(parts, sep) ==
    IF parts = <<>> THEN <<>>
    ELSE IF Len(parts) = 1 THEN Head(parts)
    ELSE Head(parts) \o <<sep>> \o join(Tail(parts), sep)

\* The loop of parse_tags over the parts left, out holding the tags seen so far in order.
RECURSIVE parse_tags_loop(_, _)
parse_tags_loop(parts, out) ==
    IF parts = <<>> THEN out
    ELSE LET tag == Strip(Head(parts), " ")
         IN IF tag = <<>> \/ \E i \in 1..Len(out) : out[i] = tag
            THEN parse_tags_loop(Tail(parts), out)
            ELSE parse_tags_loop(Tail(parts), Append(out, tag))

\* parse_tags splitting at ';' only (a faulty variant).
parse_tags_semicolon_only(raw) ==
    IF raw = NoText \/ raw = <<>> THEN <<>>
    ELSE parse_tags_loop(split(raw, ";"), <<>>)

parse_tags(raw) ==
    IF raw = NoText \/ raw = <<>> THEN <<>>
    ELSE parse_tags_loop(split(replace(raw, ",", ";"), ";"), <<>>)

InitTags == InitData /\ InitTasks /\ InitFsm /\ InitCall

\* parse_tags(raw), and parse_tags of its result joined with ';'.
ParseTags ==
    /\ applied = NoCall
    /\ \E raw \in TagStrings :
          applied' = [fn |-> "parse_tags", args |-> <<raw>>,
                      ret |-> <<parse_tags(raw), parse_tags(join(parse_tags(raw), ";"))>>]
    /\ UNCHANGED <<ledger, infra, now, events, tasks, fsm>>

NextTags == ParseTags

SpecTags == InitTags /\ [][NextTags]_vars

IsSeparator(c) == c \in {",", ";"}

\* The pieces of s between separators: <<i, j>> is a maximal run s[i..j] without one.
Pieces(s) ==
    {p \in (1..(Len(s) + 1)) \X (0..Len(s)) :
        /\ p[2] >= p[1] - 1
        /\ \A k \in p[1]..p[2] : ~IsSeparator(s[k])
        /\ p[1] = 1 \/ IsSeparator(s[p[1] - 1])
        /\ p[2] = Len(s) \/ IsSeparator(s[p[2] + 1])}

\* The trimmed text of a piece.
Trimmed(s, p) == Strip(SubSeq(s, p[1], p[2]), " ")

\* Where tag first occurs in s.
FirstPiece(s, tag) ==
    CHOOSE i \in 1..(Len(s) + 1) :
        /\ \E p \in Pieces(s) : p[1] = i /\ Trimmed(s, p) = tag
        /\ \A p \in Pieces(s) : Trimmed(s, p) = tag => p[1] >= i

\* C24: parse_tags(s) holds no empty string and no duplicate; it holds exactly the
\* trimmed non-empty pieces of s between ',' and ';', in the order of their first
\* occurrence; parsing its result joined with ';' gives it back; parse_tags(None) is the
\* empty list.
C24_ParseTags ==
    applied.fn = "parse_tags" =>
        LET raw == applied.args[1]
            out == applied.ret[1]
        IN /\ \A i \in 1..Len(out) : out[i] # <<>>
           /\ \A i, j \in 1..Len(out) : out[i] = out[j] => i = j
           /\ applied.ret[2] = out
           /\ raw = NoText => out = <<>>
           /\ raw # NoText =>
                 /\ {out[i] : i \in 1..Len(out)} = {Trimmed(raw, p) : p \in Pieces(raw)} \ {<<>>}
                 /\ \A i, j \in 1..Len(out) :
                       i < j => FirstPiece(raw, out[i]) < FirstPiece(raw, out[j])

\* A string with a repeated tag, blanks around tags, an empty piece and both separators.
C24_Witness ==
    /\ applied.fn = "parse_tags"
    /\ applied.args[1] = <<"b", ",", " ", "a", ";", "b">>
    /\ applied.ret[1] = << <<"b">>, <<"a">> >>

\* ---------------------------------------------------------------------------------
\* One pipeline step per tick.

\* The stage of the delete pipeline a state is at; "completed" (the record is removed) is
\* past the last.
Stage(state) ==
    CASE state = STATE_DELETING_VM -> 1
      [] state = STATE_DELETING_ISO -> 2
      [] state = STATE_DELETING_NODE -> 3
      [] state = STATE_COMPLETED -> 4
      [] OTHER -> 0

Deleting(g) ==
    {v \in DOMAIN vm_states : vm_states[v].group_id = g /\ is_delete_state(vm_states[v].state)}

\* The stages the record of vmid was advanced to during the operation that produced w.
Advances(w, vmid) ==
    {Stage(wr.state) : wr \in {x \in w.writes : /\ x.vmid = vmid
                                                /\ is_delete_state(x.old_state)
                                                /\ Stage(x.state) > Stage(x.old_state)}}
        \cup {Stage(STATE_COMPLETED) : rm \in {x \in w.removed : /\ x.vmid = vmid
                                                                /\ is_delete_state(x.old_state)}}

\* C25: in one reconcile_group call that completes, every record that was in a
\* deleting_* state runs exactly one pipeline step and is advanced by at most one stage
\* (deleting_vm to deleting_iso, deleting_iso to deleting_node, deleting_node to removed),
\* also when it was in deleting_vm and its VM is absent from the snapshot.
C25_OneStepPerTick ==
    \A g \in Groups : \A r \in ReconcileRuns(g) :
        r.w.err = "none" =>
            \A v \in Deleting(g) :
                /\ Cardinality({st \in r.w.steps : st.vmid = v}) = 1
                /\ Cardinality(Advances(r.w, v)) <= 1

\* ---------------------------------------------------------------------------------
\* A failing step of the delete pipeline.

RETRY_EVENTS == {EVENT_VM_RETRY, EVENT_ISO_RETRY, EVENT_NODE_RETRY}

\* The steps of the delete pipeline that failed during the operation that produced w.
FailedSteps(w) == {st \in w.steps : st.event \in RETRY_EVENTS}

\* The record of the failed step st as the tick that produced w leaves it: there, in the
\* state of the step, with an error message and the reference the step started with.
KeptForRetry(w, st) ==
    /\ st.vmid \in DOMAIN w.vm_states
    /\ w.vm_states[st.vmid].state = st.state
    /\ w.vm_states[st.vmid].last_error # "none"
    /\ st.cleanup # NoRef => w.vm_states[st.vmid].cleanup = st.cleanup
    /\ \A rm \in w.removed : rm.vmid # st.vmid
    /\ \A wr \in w.writes : (wr.vmid = st.vmid /\ wr.old_state = st.state) => wr.state = st.state

\* C26: when a step of the delete pipeline fails in reconcile_group(g), the record is
\* still in the same deleting_* state when the tick ends, with a last_error and with the
\* cleanup reference it had; nothing removed it or moved it to another state; and the next
\* tick runs the same step for it again.
C26_FailedStepRetries ==
    \A g \in Groups : \A r \in ReconcileRuns(g) :
        \A st \in FailedSteps(r.w) :
            /\ KeptForRetry(r.w, st)
            /\ r.w.err = "none" =>
                   \E again \in NextTick(r.w, g).steps :
                       again.vmid = st.vmid /\ again.state = st.state

\* ---------------------------------------------------------------------------------
\* The deleting_iso step.

\* The steps run for records in deleting_iso during the operation that produced w.
IsoSteps(w) == {st \in w.steps : st.state = STATE_DELETING_ISO}

\* The write that persists the outcome of step st: the record goes from deleting_iso to
\* `state`.
Persisted(w, st, state) ==
    \E wr \in w.writes :
        wr.vmid = st.vmid /\ wr.old_state = STATE_DELETING_ISO /\ wr.state = state

\* C27: in reconcile_group(g), the step of a record in deleting_iso calls
\* delete_storage_volume (with the record's reference) exactly when the record has a
\* cleanup reference; when the call succeeds or answers 404, or there is no reference,
\* the step applies iso_done and the record is persisted as deleting_node; when the call
\* fails otherwise it applies iso_retry and the record is persisted as deleting_iso.
C27_DeleteIsoStep ==
    \A g \in Groups : \A r \in ReconcileRuns(g) :
        /\ r.w.calls.delete_storage_volume = {st.cleanup : st \in IsoSteps(r.w)} \ {NoRef}
        /\ \A st \in IsoSteps(r.w) :
              IF st.cleanup # NoRef /\ r.f = "delete_storage_volume"
              THEN st.event = EVENT_ISO_RETRY /\ Persisted(r.w, st, STATE_DELETING_ISO)
              ELSE st.event = EVENT_ISO_DONE /\ Persisted(r.w, st, STATE_DELETING_NODE)

\* Ticks are next in which the ISO step of a record with a reference gets a 404 answer and
\* in which it fails, and a tick in which a record without a reference takes the step.
C27_Witness ==
    /\ \E g \in Groups : \E r \in ReconcileRuns(g) : \E st \in IsoSteps(r.w) :
          st.cleanup # NoRef /\ r.f = "delete_storage_volume_404"
    /\ \E g \in Groups : \E r \in ReconcileRuns(g) : \E st \in IsoSteps(r.w) :
          st.cleanup # NoRef /\ r.f = "delete_storage_volume"
    /\ \E g \in Groups : \E r \in ReconcileRuns(g) : \E st \in IsoSteps(r.w) :
          st.cleanup = NoRef

\* ---------------------------------------------------------------------------------
\* The passes and helpers that work on a store and a snapshot they find: the store is
\* persistent, so it may hold whatever an earlier run (or an earlier version) left.

\* What a stored row can look like: any lifecycle state or a state that is none
\* (completed is never persisted by this version), for either group, a deleting row with
\* or without a cleanup reference.
RowShapes ==
    [state : {STATE_PENDING, STATE_ACTIVE, STATE_FAILED, STATE_COMPLETED}, group_id : Groups,
     ref : {FALSE}]
        \cup [state : DELETE_STATES, group_id : Groups, ref : BOOLEAN]

\* The row of shape s for vmid v.
Row(v, s) ==
    [state |-> s.state, group_id |-> s.group_id, vm_name |-> VmName(s.group_id, v),
     pending_since |-> IF s.state = STATE_PENDING THEN 0 ELSE None,
     last_error |-> "none",
     cleanup |-> IF s.ref THEN extract_attached_seed_iso(SeedIde2(s.group_id, v)) ELSE NoRef]

\* What a VM can look like: created by the provider for one group; running or stopped.
VmShapes == [owner : Groups, status : {"running", "stopped"}]

Vm(v, s) ==
    [name |-> VmName(s.owner, v), status |-> s.status, tags |-> {s.owner},
     ide2 |-> SeedIde2(s.owner, v)]

Shaped(D, Shapes) == UNION {[S -> Shapes] : S \in SUBSET D}

InitStore ==
    /\ InitTasks /\ InitFsm /\ InitCall
    /\ group_sizes = <<>> /\ kube_nodes = {}
    /\ now = MaxNow /\ events = 0
    /\ \E rows \in Shaped(Vmids, RowShapes) : vm_states = [v \in DOMAIN rows |-> Row(v, rows[v])]
    /\ \E vms \in Shaped(Vmids, VmShapes) : pve_vms = [v \in DOMAIN vms |-> Vm(v, vms[v])]

\* The function fn is applied to args in the store `before`, writing and removing rows.
Applied(fn, args, before, w, ret) ==
    /\ applied = NoCall
    /\ applied' = [fn |-> fn, args |-> args, ret |-> ret, before |-> before,
                   writes |-> w.writes, removed |-> w.removed]
    /\ Apply(w)
    /\ UNCHANGED <<now, events, tasks, fsm>>

\* _reconcile_missing_vm_records(group, existing_vmids) with the snapshot of the group.
ReconcileMissingVmRecords ==
    \E g \in Groups :
        LET existing_vmids == DOMAIN group_vms(World, g)
        IN \E w \in {reconcile_missing_vm_records(World, g, group_records(World, g),
                                                  existing_vmids, 1)} :
               Applied("reconcile_missing_vm_records", <<g, existing_vmids>>, vm_states, w, w.err)

\* ensure_vm_state(group, vm) for a VM of the group's snapshot.
EnsureVmState ==
    \E g \in Groups : \E v \in DOMAIN group_vms(World, g) :
        LET vm == group_vms(World, g)[v]
        IN \E w \in {ensure_vm_state(World, g, vm)} :
               Applied("ensure_vm_state", <<g, vm>>, vm_states, w, ensure_vm_state_result(World, g, vm))

\* shrink_to_desired(group, managed, desired) with the managed VMs of the group, as
\* reconcile_group passes them.
ShrinkToDesired ==
    \E g \in Groups, desired \in 0..MaxVmid, f \in {"none", "attached_seed_iso"} :
        LET vms == group_vms(World, g)
            candidates == [v \in {x \in DOMAIN vms \cap DOMAIN vm_states :
                                     /\ vm_states[x].group_id = g
                                     /\ vm_states[x].state \in {STATE_ACTIVE, STATE_PENDING}}
                             |-> vm_states[v].state]
        IN \E w \in {shrink_to_desired(World, g, vms, candidates, desired, f)} :
               Applied("shrink_to_desired", <<g, candidates, desired>>, vm_states, w, w.err)

NextStore == ReconcileMissingVmRecords \/ EnsureVmState \/ ShrinkToDesired

SpecStore == InitStore /\ [][NextStore]_vars

\* The rows of group g whose vmid the snapshot `existing_vmids` lacks.
Missing(rows, g, existing_vmids) ==
    {v \in DOMAIN rows : rows[v].group_id = g /\ v \notin existing_vmids}

\* C28: after _reconcile_missing_vm_records(g, existing_vmids), every row of g whose vmid
\* the snapshot lacks is removed when its state was no lifecycle state or pending, active
\* or failed, is in deleting_iso with the cleanup reference it had when it was in
\* deleting_vm, and is in the state it had when that was deleting_iso or deleting_node;
\* the rows whose vmid is in the snapshot (and the rows of other groups) are as before.
C28_OrphanRecordPass ==
    applied.fn = "reconcile_missing_vm_records" =>
        LET g == applied.args[1]
            before == applied.before
        IN /\ applied.ret = "none"
           /\ \A v \in Missing(before, g, applied.args[2]) :
                 CASE before[v].state \notin DELETE_STATES -> v \notin DOMAIN vm_states
                   [] before[v].state = STATE_DELETING_VM ->
                         /\ v \in DOMAIN vm_states
                         /\ vm_states[v].state = STATE_DELETING_ISO
                         /\ vm_states[v].cleanup = before[v].cleanup
                   [] OTHER ->
                         /\ v \in DOMAIN vm_states
                         /\ vm_states[v].state = before[v].state
           /\ \A v \in DOMAIN before \ Missing(before, g, applied.args[2]) :
                 /\ v \in DOMAIN vm_states /\ vm_states[v] = before[v]
                 /\ \A wr \in applied.writes : wr.vmid # v
           /\ DOMAIN vm_states \subseteq DOMAIN before

\* The pass has removed a row whose state is no lifecycle state and has moved a row with a
\* cleanup reference from deleting_vm to deleting_iso.
C28_Witness ==
    /\ applied.fn = "reconcile_missing_vm_records"
    /\ \E rm \in applied.removed : rm.old_state = STATE_COMPLETED
    /\ \E v \in Missing(applied.before, applied.args[1], applied.args[2]) :
          /\ applied.before[v].state = STATE_DELETING_VM
          /\ applied.before[v].cleanup # NoRef

\* ---------------------------------------------------------------------------------
\* ensure_vm_state.

\* The store `rows` has a row for vmid under group g with a legal lifecycle state.
HasLegalRow(rows, g, vmid) ==
    /\ vmid \in DOMAIN rows
    /\ rows[vmid].group_id = g
    /\ rows[vmid].state \in LIFECYCLE_STATES

\* C29: ensure_vm_state(g, vm) returns the state of the row of vm.vmid and writes nothing
\* when the store has such a row under g with a legal lifecycle state; otherwise it leaves
\* a row for vm.vmid under g, active when vm.status is "running", pending with
\* pending_since = now in every other case, and returns that state; no other row changes.
C29_EnsureVmState ==
    applied.fn = "ensure_vm_state" =>
        LET g == applied.args[1]
            vm == applied.args[2]
            before == applied.before
        IN /\ IF HasLegalRow(before, g, vm.vmid)
              THEN /\ applied.ret = before[vm.vmid].state
                   /\ applied.writes = {} /\ applied.removed = {}
                   /\ vm_states = before
              ELSE /\ vm.vmid \in DOMAIN vm_states
                   /\ vm_states[vm.vmid].group_id = g
                   /\ applied.ret = vm_states[vm.vmid].state
                   /\ IF vm.status = "running"
                      THEN vm_states[vm.vmid].state = STATE_ACTIVE
                      ELSE /\ vm_states[vm.vmid].state = STATE_PENDING
                           /\ vm_states[vm.vmid].pending_since = now
           /\ DOMAIN vm_states = DOMAIN before \cup {vm.vmid}
           /\ \A v \in DOMAIN before \ {vm.vmid} : vm_states[v] = before[v]

\* ensure_vm_state has seeded a pending row for a stopped VM whose vmid had a row of the
\* other group.
C29_Witness ==
    /\ applied.fn = "ensure_vm_state"
    /\ applied.args[2].status = "stopped"
    /\ applied.args[2].vmid \in DOMAIN applied.before
    /\ applied.before[applied.args[2].vmid].group_id # applied.args[1]
    /\ applied.writes # {}
    /\ vm_states[applied.args[2].vmid].state = STATE_PENDING

\* ---------------------------------------------------------------------------------
\* shrink_to_desired.

\* The candidates whose deletion the applied shrink_to_desired requested: their rows were
\* written as deleting_vm.
Chosen == {wr.vmid : wr \in {x \in applied.writes : x.state = STATE_DELETING_VM}}

\* C30: shrink_to_desired(g, candidates, desired) requests the deletion of exactly
\* max(0, len(candidates) - desired) candidates; no active candidate is chosen while a
\* pending one is left; of two candidates in the same state the one left has the lower
\* vmid; the rows of the candidates left (and every other row) are as they were.
C30_ShrinkToDesired ==
    applied.fn = "shrink_to_desired" =>
        LET candidates == applied.args[2]
            desired == applied.args[3]
            left == DOMAIN candidates \ Chosen
        IN /\ applied.ret = "none"
           /\ Chosen \subseteq DOMAIN candidates
           /\ Cardinality(Chosen) = Max(0, Cardinality(DOMAIN candidates) - desired)
           /\ \A c \in Chosen : \A u \in left :
                 /\ ~(candidates[c] = STATE_ACTIVE /\ candidates[u] = STATE_PENDING)
                 /\ candidates[c] = candidates[u] => c > u
           /\ \A c \in Chosen : vm_states[c].state = STATE_DELETING_VM
           /\ \A v \in DOMAIN applied.before \ Chosen :
                 v \in DOMAIN vm_states /\ vm_states[v] = applied.before[v]
           /\ \A wr \in applied.writes : wr.vmid \in Chosen
           /\ applied.removed = {}

\* shrink_to_desired has chosen a pending candidate and left an active one with a higher
\* vmid.
C30_Witness ==
    /\ applied.fn = "shrink_to_desired"
    /\ \E c \in Chosen : \E u \in DOMAIN applied.args[2] \ Chosen :
          /\ applied.args[2][c] = STATE_PENDING
          /\ applied.args[2][u] = STATE_ACTIVE
          /\ u > c

\* ---------------------------------------------------------------------------------
\* The stale-node prune.

\* The names of the VMs the observation pass of the tick that produced w left active (they
\* are running: an active VM that is not is made pending by the pass).
ActiveNames(w) == {pve_vms[v].name : v \in {x \in DOMAIN w.managed : w.managed[x] = STATE_ACTIVE}}

\* The names of the nodes labelled with group g that are not names of such VMs.
StaleNames(w, g) == {n.name : n \in {x \in kube_nodes : x.group = g}} \ ActiveNames(w)

\* The node names the delete pipeline of the tick passed to delete_node.
PipelineNodeNames(w) == {st.vm_name : st \in {x \in w.steps : x.state = STATE_DELETING_NODE}}

\* C31: in a reconcile tick of group g that completes, delete_node is requested for every
\* node labelled with g whose name is not the name of a running VM of g in state active
\* (unless the prune could not list the nodes), and the prune requests it for no other
\* name: not for a node without the label, not for the node of an active running VM.
C31_StaleNodePrune ==
    \A g \in Groups : \A r \in ReconcileRuns(g) :
        r.w.err = "none" =>
            /\ r.f # "list_nodes_prune" => StaleNames(r.w, g) \subseteq r.w.calls.delete_node
            /\ r.w.calls.delete_node \ PipelineNodeNames(r.w) \subseteq StaleNames(r.w, g)
            /\ r.f = "list_nodes_prune" => r.w.calls.delete_node \subseteq PipelineNodeNames(r.w)

\* A tick is next whose prune deletes the labelled node of a pending VM while the nodes of
\* an active VM, one labelled and one not, stay.
C31_Witness ==
    \E g \in Groups : \E r \in ReconcileRuns(g) :
        /\ r.w.err = "none" /\ r.w.steps = {}
        /\ \E v \in DOMAIN r.w.managed :
              /\ r.w.managed[v] = STATE_PENDING
              /\ pve_vms[v].name \in r.w.calls.delete_node
        /\ \E v \in DOMAIN r.w.managed :
              /\ r.w.managed[v] = STATE_ACTIVE
              /\ \E n \in kube_nodes : n.name = pve_vms[v].name /\ n.group = g
              /\ pve_vms[v].name \notin r.w.calls.delete_node

\* ---------------------------------------------------------------- C32
\* The tick of group g from the present state when list_nodes answers the empty list.
NodelessTick(g) == reconcile_group([World EXCEPT !.kube_nodes = {}], g, "none")

\* What a tick did to the store, the ledger and Proxmox, with the steps of the delete
\* pipeline it ran and the VMs its observation pass left managed.
TickEffects(w) ==
    [vm_states |-> w.vm_states, group_sizes |-> w.group_sizes, pve_vms |-> w.pve_vms,
     writes |-> w.writes, removed |-> w.removed, managed |-> w.managed, err |-> w.err,
     steps |-> {[vmid |-> st.vmid, state |-> st.state, event |-> st.event] : st \in w.steps},
     created |-> w.calls.create_vm_from_image,
     stopped |-> w.calls.stop_and_delete_vm,
     volumes |-> w.calls.delete_storage_volume]

\* C32: when list_nodes fails at the start of a tick the tick runs to the end as a tick
\* that listed no node does (the same orphan pass, pipeline steps, timeout deletions and
\* convergence, and the same outcome), and it promotes no pending VM of the group (no
\* pending record of the group is made active); when list_nodes fails in the stale-node
\* prune, the prune deletes no node (the only delete_node calls are those of the
\* pipeline's deleting_node step).
C32_NodeListingFails ==
    \A g \in Groups : \A r \in ReconcileRuns(g) :
        /\ r.f = "list_nodes" =>
              /\ TickEffects(r.w) = TickEffects(NodelessTick(g))
              /\ \A wr \in r.w.writes :
                    ~(wr.old_group = g /\ wr.old_state = STATE_PENDING /\ wr.state = STATE_ACTIVE)
        /\ r.f = "list_nodes_prune" =>
              /\ r.w.err = "none" => r.w.calls.delete_node \subseteq PipelineNodeNames(r.w)
              /\ {n \in kube_nodes : n.name \notin PipelineNodeNames(r.w)} \subseteq r.w.kube_nodes

\* A tick whose node listing fails runs to the end: it drops an orphan record or runs a
\* pipeline step and requests the deletion of a timed-out pending VM that has a Ready
\* node; the same tick with the listing would have promoted that VM.
C32_Witness ==
    \E g \in Groups : \E r \in ReconcileRuns(g) :
        /\ r.f = "list_nodes" /\ r.w.err = "none"
        /\ r.w.steps # {} \/ r.w.removed # {}
        /\ \E v \in DOMAIN pve_vms :
              /\ Promoted(reconcile_group(World, g, "none"), v)
              /\ \E wr \in r.w.writes :
                    wr.vmid = v /\ wr.old_state = STATE_PENDING /\ is_delete_state(wr.state)

\* ---------------------------------------------------------------- C33
\* The group mutexes the reconcile task holds.
LoopHolds == {g \in Groups : group_locks[g] = LoopTask}

\* C33: in every tick of the background task each configured group is reconciled once,
\* in the configured order, under that group's mutex alone: a tick starts at the first
\* group, the task reconciles the group whose mutex it has taken and holds no other, and
\* when the reconcile_group of a group ends, whether it returned or raised, the task goes
\* on to the next group of the order; it sleeps only after the last group.
C33_EveryGroupEachTick ==
    [][/\ (loop.pc = "sleep" /\ loop'.pc = "acquire") => loop'.idx = 1
       /\ (loop.pc = "acquire" /\ loop'.pc = "reconcile") =>
              /\ loop'.idx = loop.idx
              /\ LoopHolds' = {GroupOrder[loop.idx]}
       /\ (loop.pc = "reconcile" /\ loop'.pc \in {"acquire", "sleep"}) =>
              /\ LoopHolds' = {}
              /\ IF loop.idx < Len(GroupOrder)
                 THEN loop'.pc = "acquire" /\ loop'.idx = loop.idx + 1
                 ELSE loop'.pc = "sleep"]_vars

\* ---------------------------------------------------------------- C34
\* The tasks that take group mutexes.
Tasks == {StartTask, LoopTask} \cup {RpcTask(c) : c \in Clients}

\* The group whose operation task t is running (bootstrap_group in start(),
\* reconcile_group in the loop, fn() in _with_group_lock), or no group.
Operating(t) ==
    IF t = StartTask
    THEN IF lifecycle.op = "start" /\ lifecycle.pc = "bootstrap" THEN {GroupOrder[lifecycle.idx]} ELSE {}
    ELSE IF t = LoopTask
    THEN IF loop.pc = "reconcile" THEN {GroupOrder[loop.idx]} ELSE {}
    ELSE {rpc[c].group : c \in {x \in Clients : RpcTask(x) = t /\ rpc[x].pc = "run"}}

\* The operation of client c ends: fn() returns or raises.
RpcEnds(c) == RpcReturn(c) /\ UNCHANGED data

\* The task interleaving in which every operation under a mutex ends (its collaborator
\* calls return, or the cancellation is delivered) and a task waiting for a mutex that
\* is released again and again gets it (asyncio.Lock wakes its waiters first come, first
\* served). bootstrap_group and reconcile_group can always end, so weak fairness on
\* StartBootstrap and on ReconcileLoopReconcile \/ ReconcileLoopCancelled amounts to the
\* two recurrence conditions.
SpecTasksLive ==
    /\ SpecTasks
    /\ []<>(lifecycle.pc # "bootstrap")
    /\ []<>(loop.pc # "reconcile")
    /\ \A c \in Clients : WF_vars(RpcEnds(c)) /\ SF_vars(RpcAcquire(c))

\* C34: the group mutexes a task holds are exactly the mutex of the group whose
\* operation it is running, so no task holds two of them, none waits for a mutex while
\* holding one (no deadlock), and a task whose operation has ended (returned, raised or
\* cancelled by stop()) holds none; and an RPC waiting for a group's mutex acquires it.
C34_NoDeadlock ==
    /\ [](\A t \in Tasks : {g \in Groups : group_locks[g] = t} = Operating(t))
    /\ [](\A t \in Tasks : Cardinality(Operating(t)) <= 1)
    /\ \A c \in Clients : (rpc[c].pc = "acquire") ~> (rpc[c].pc = "run")

\* stop() has cancelled the reconcile task in the middle of reconcile_group, the task has
\* ended and its mutex is free again, while an RPC for the same group waits for the mutex.
C34_Witness ==
    /\ lifecycle.op = "stop" /\ loop.pc = "none" /\ ~locked(GroupOrder[1])
    /\ \E c \in Clients : rpc[c].pc = "acquire" /\ rpc[c].group = GroupOrder[1]
    /\ \E c \in Clients : rpc[c].pc = "run" /\ rpc[c].group = GroupOrder[2]

\* ---------------------------------------------------------------- C35
\* The mutations of the ledger, step by step: a facade call waits for the group's mutex,
\* reads desired_size (`desired = await ensure_desired_size_initialized(group)`) and, at
\* a later step of the event loop, writes the size it computed from what it read
\* (`await self.state.set_desired_size(...)`). Other tasks run between the two steps.

\* A client calls node_group_increase_size, node_group_decrease_target_size or
\* node_group_delete_nodes of group g.
LedgerCall(c) ==
    /\ rpc[c].pc = "idle" /\ calls < MaxCalls /\ started
    /\ calls' = calls + 1
    /\ \E g \in Groups, op \in {"increase", "decrease", "delete_nodes"} :
          rpc' = [rpc EXCEPT ![c] = [pc |-> "acquire", group |-> g, op |-> op, delta |-> 0, seen |-> None]]
    /\ UNCHANGED <<data, now, fsm, applied, initialized, started, start_lock, group_locks, running, lifecycle, loop>>

\* _with_group_lock entering fn() without the mutex (a faulty variant).
LedgerAcquire_unlocked(c) ==
    /\ rpc[c].pc = "acquire"
    /\ rpc' = [rpc EXCEPT ![c].pc = "read"]
    /\ UNCHANGED <<data, now, fsm, applied, initialized, calls, started, start_lock, group_locks, running, lifecycle, loop>>

\* _with_group_lock: `async with lock:`.
LedgerAcquire(c) ==
    /\ rpc[c].pc = "acquire"
    /\ Acquire(rpc[c].group, RpcTask(c))
    /\ rpc' = [rpc EXCEPT ![c].pc = "read"]
    /\ UNCHANGED <<data, now, fsm, applied, initialized, calls, started, start_lock, lifecycle, loop>>

\* The call up to its read of the ledger: with its delta for the two resizing calls; after
\* the deletion requests of its nodes, with minus their number, for node_group_delete_nodes
\* (a node that is not found ends the call).
LedgerReadWorld(op, g, entries) ==
    IF op = "delete_nodes" THEN delete_nodes_loop(World, g, entries, 1, "none") ELSE World

LedgerRead(c) ==
    /\ rpc[c].pc = "read"
    /\ \E delta \in 1..MaxDelta, entries \in NodeLists \ {<<>>} :
       \E w1 \in {LedgerReadWorld(rpc[c].op, rpc[c].group, entries)} :
       \E w2 \in {ensure_desired_size_initialized(w1, rpc[c].group, None, "none")} :
          IF w1.err # "none"
          THEN /\ Apply(w1)
               /\ Release(rpc[c].group, RpcTask(c))
               /\ rpc' = [rpc EXCEPT ![c] = [pc |-> "idle", group |-> ""]]
          ELSE /\ Apply(w2)
               /\ rpc' = [rpc EXCEPT ![c].pc = "write", ![c].seen = w2.ret,
                                     ![c].delta = IF rpc[c].op = "increase" THEN delta
                                                  ELSE IF rpc[c].op = "decrease" THEN 0 - delta
                                                  ELSE 0 - Len(entries)]
               /\ UNCHANGED <<group_locks, running>>
    /\ UNCHANGED <<events, now, fsm, applied, initialized, calls, started, start_lock, lifecycle, loop>>

\* The size the call computes from the size it read, None when the call raises
\* FailedPrecondition instead of writing.
new_desired(g, op, seen, delta) ==
    IF op = "delete_nodes" THEN Max(settings[g].min_size, seen + delta)
    ELSE IF op = "increase" /\ seen + delta > settings[g].max_size THEN None
    ELSE IF op = "decrease" /\ seen + delta < settings[g].min_size THEN None
    ELSE seen + delta

\* The call's set_desired_size, after which fn() returns and the mutex is released.
LedgerWrite(c) ==
    /\ rpc[c].pc = "write"
    /\ \E n \in {new_desired(rpc[c].group, rpc[c].op, rpc[c].seen, rpc[c].delta)} :
          group_sizes' = IF n = None THEN group_sizes ELSE Put(group_sizes, rpc[c].group, n)
    /\ Release(rpc[c].group, RpcTask(c))
    /\ rpc' = [rpc EXCEPT ![c] = [pc |-> "idle", group |-> ""]]
    /\ UNCHANGED <<vm_states, pve_vms, kube_nodes, events, now, fsm, applied, initialized, calls, started, start_lock, lifecycle, loop>>

\* The nodes the autoscaler asks about: a provider id, a name and the value of the
\* autoscaler.proxmox/group label ("" when the node has none).
LabelledNodes ==
    {[provider_id |-> p, name |-> n, label |-> l] :
        p \in {<<>>} \cup {ProviderId(v) : v \in Vmids},
        n \in {<<>>, <<Blank, VmName("a", 1)>>} \cup {<<VmName("b", v)>> : v \in Vmids},
        l \in {<<>>, <<" ", "b", " ">>, <<"z">>}}

\* The state node_group_for_node starts from; it has answered nothing yet.
Asked == [World EXCEPT !.ret = <<>>]

\* node_group_for_node: called without any group mutex, whatever the other tasks are in
\* the middle of.
NodeGroupForNode ==
    /\ \E node \in LabelledNodes, f \in {"none", "list_vms"} :
          Apply(node_group_for_node(Asked, node, 1, f))
    /\ UNCHANGED <<events, now, fsm, applied, initialized, calls, started, start_lock, group_locks, running, lifecycle, loop, rpc>>

NextLedger ==
    \/ StartCall
    \/ StartAcquire
    \/ StartBootstrap
    \/ ReconcileLoopAcquire
    \/ ReconcileLoopReconcile
    \/ ReconcileLoopWake
    \/ \E c \in Clients : LedgerCall(c)
    \/ \E c \in Clients : LedgerAcquire(c)
    \/ \E c \in Clients : LedgerRead(c)
    \/ \E c \in Clients : LedgerWrite(c)
    \/ NodeGroupForNode
    \/ \E v \in Vmids : VmVanishes(v)

SpecLedger == Init /\ [][NextLedger]_vars

\* What ensure_desired_size_initialized answers for group g now.
Desired(g) == Max(settings[g].min_size, Min(settings[g].max_size, group_sizes[g]))

\* The calls between their read and their write.
Writers == {c \in Clients : rpc[c].pc = "write"}

\* C35: no lost update on the ledger. While a call of group g is between its read of
\* desired_size and its write, it holds the mutex of g and the ledger still holds the size
\* it read, whatever the other calls and the reconcile ticks do in between; so each write
\* applies the call to the size the previous holder of the mutex left, a call that raises
\* leaves the size alone, and a successful increase by d raises the size in the ledger
\* by d (two of them, by d1 and d2, raise it by d1 + d2).
C35_NoLostUpdate ==
    /\ [](\A c \in Writers :
            /\ group_locks[rpc[c].group] = RpcTask(c)
            /\ rpc[c].group \in DOMAIN group_sizes
            /\ rpc[c].seen = Desired(rpc[c].group))
    /\ [][\A c \in Writers : rpc'[c].pc = "idle" =>
            \E n \in {new_desired(rpc[c].group, rpc[c].op, Desired(rpc[c].group), rpc[c].delta)} :
                /\ group_sizes' = IF n = None THEN group_sizes ELSE Put(group_sizes, rpc[c].group, n)
                /\ (rpc[c].op = "increase" /\ n # None
                        /\ group_sizes[rpc[c].group] >= settings[rpc[c].group].min_size) =>
                      group_sizes'[rpc[c].group] = group_sizes[rpc[c].group] + rpc[c].delta]_vars

\* Two increases of the same group are in flight at once: the first has already raised
\* the size read by the second, which is about to write while the reconcile loop waits
\* for the group's mutex.
C35_Witness ==
    \E c \in Writers :
        /\ rpc[c].op = "increase" /\ rpc[c].delta = 1 /\ rpc[c].seen = 1
        /\ rpc[c].group = GroupOrder[1] /\ calls = 2
        /\ new_desired(rpc[c].group, rpc[c].op, rpc[c].seen, rpc[c].delta) = 2
        /\ loop.pc = "acquire" /\ GroupOrder[loop.idx] = rpc[c].group

\* ---------------------------------------------------------------- C36
\* The groups whose desired_size is in the ledger and within [min_size, max_size].
InRange == {g \in DOMAIN group_sizes :
               settings[g].min_size <= group_sizes[g] /\ group_sizes[g] <= settings[g].max_size}

BootstrapRuns(g) == {[f |-> f, w |-> bootstrap_group(World, g, f)] : f \in FaultsNow(TargetSizeFaults)}

\* w leaves every desired_size that is present and in range as it is.
KeepsDesired(w) == \A h \in InRange : h \in DOMAIN w.group_sizes /\ w.group_sizes[h] = group_sizes[h]

\* C36: reconcile_group and bootstrap_group never change a desired_size that is in the
\* ledger and within [min_size, max_size], whatever they do to the VMs (timeout and
\* failed-VM deletions, orphan records dropped, VMs created, shrinking) and whichever
\* collaborator fails.
C36_DesiredSizeFrame ==
    \A g \in Groups :
        /\ \A r \in ReconcileRuns(g) : KeepsDesired(r.w)
        /\ \A r \in BootstrapRuns(g) : KeepsDesired(r.w)

\* With every desired_size in range, a tick of one group creates a VM, a tick of another
\* requests the deletion of one, and a bootstrap drops an orphan record.
C36_Witness ==
    /\ InRange = Groups
    /\ \E g \in Groups : reconcile_group(World, g, "none").calls.create_vm_from_image # {}
    /\ \E g \in Groups : \E wr \in reconcile_group(World, g, "none").writes :
          wr.old_state \in {STATE_PENDING, STATE_ACTIVE, STATE_FAILED} /\ wr.state = STATE_DELETING_VM
    /\ \E g \in Groups : bootstrap_group(World, g, "none").removed # {}

\* ---------------------------------------------------------------- C37
\* The records that hold a captured seed-ISO reference.
HoldsRef == {v \in DOMAIN vm_states : vm_states[v].cleanup # NoRef}

\* The orphan pass of a tick of group g, and the orphan pass followed by the delete
\* pipeline, as reconcile_group runs them.
OrphanPass(g) ==
    reconcile_missing_vm_records(World, g, group_records(World, g), DOMAIN group_vms(World, g), 1)

PipelineRuns(g) ==
    {[f |-> f, w |-> progress_delete_states(OrphanPass(g), g, group_records(OrphanPass(g), g),
                                            group_vms(World, g), 1, f)] : f \in FaultsNow(Faults)}

\* request_vm_deletion for a listed VM of group g.
DeletionRequests(g) ==
    {[f |-> f, w |-> request_vm_deletion(World, g, group_vms(World, g)[v], f)] :
        v \in DOMAIN group_vms(World, g), f \in FaultsNow({"none", "attached_seed_iso"})}

\* The record is gone or has left deleting_iso for deleting_node.
PastIso(state) == state \in {STATE_DELETING_NODE, "absent"}

\* r leaves every captured reference in its record, and a record holding one gets past
\* deleting_iso only when r called delete_storage_volume on the reference and the call
\* succeeded or answered 404.
KeepsRef(r) ==
    \A v \in HoldsRef :
        /\ v \in DOMAIN r.w.vm_states => r.w.vm_states[v].cleanup = vm_states[v].cleanup
        /\ (PastIso(StateIn(r.w, v)) /\ ~PastIso(vm_states[v].state)) =>
              /\ vm_states[v].cleanup \in r.w.calls.delete_storage_volume
              /\ r.f # "delete_storage_volume"

\* C37: once a record holds a captured seed-ISO reference, every write to it by
\* request_vm_deletion, the orphan pass or a step of the delete pipeline keeps the
\* reference, and the record does not leave deleting_iso (so is not removed) before
\* delete_storage_volume on that reference has succeeded or answered 404, also when the
\* VM has vanished before stop_and_delete_vm was called.
C37_SeedIsoReferenceKept ==
    \A g \in Groups :
        /\ KeepsRef([f |-> "none", w |-> OrphanPass(g)])
        /\ \A r \in PipelineRuns(g) : KeepsRef(r)
        /\ \A r \in DeletionRequests(g) : KeepsRef(r)

\* A record in deleting_vm holds a reference and its VM has vanished: the orphan pass
\* moves it to deleting_iso with the reference, and the pipeline deletes that volume
\* (the storage answering 404) before the record goes on to deleting_node.
C37_Witness ==
    \E g \in Groups : \E v \in HoldsRef : \E r \in PipelineRuns(g) :
        /\ vm_states[v].state = STATE_DELETING_VM /\ vm_states[v].group_id = g
        /\ v \notin DOMAIN pve_vms
        /\ StateIn(OrphanPass(g), v) = STATE_DELETING_ISO
        /\ OrphanPass(g).vm_states[v].cleanup = vm_states[v].cleanup
        /\ r.f = "delete_storage_volume_404"
        /\ StateIn(r.w, v) = STATE_DELETING_NODE
        /\ vm_states[v].cleanup \in r.w.calls.delete_storage_volume

\* ---------------------------------------------------------------- C38
\* The VMs of group g that a tick lists and whose record is in the group.
Observed(g) == {v \in DOMAIN group_vms(World, g) : v \in DOMAIN vm_states /\ vm_states[v].group_id = g}

\* The VM is running and the snapshot of the tick run r has a matching Ready node.
Promotable(g, v, r) ==
    /\ pve_vms[v].status = "running"
    /\ ReadyNodeFor(g, v, IF r.f = "list_nodes" THEN {} ELSE kube_nodes)

\* The pending record has reached the timeout.
TimedOut(v) ==
    /\ vm_states[v].pending_since # None
    /\ now - vm_states[v].pending_since >= pending_vm_timeout_seconds

\* The VMs whose deletion the observation pass of w requested by the timeout rule: their
\* pending record was moved to deleting_vm and they do not count as managed (the VMs the
\* shrink deletes do).
DeletedByTimeout(w) ==
    {wr.vmid : wr \in {x \in w.writes : x.old_state = STATE_PENDING /\ x.state = STATE_DELETING_VM}}
        \ DOMAIN w.managed

\* C38: in the observation pass promotion takes precedence over the pending timeout. A
\* pending VM that is promotable in the tick is promoted and counts as active even when
\* its record has timed out; the timeout rule requests a deletion only for a pending VM
\* that is not promotable and has timed out; and an active VM observed not running is
\* made pending with pending_since = now and stays managed, never deleted by the timeout
\* rule in that tick.
C38_PromotionBeforeTimeout ==
    \A g \in Groups : \A r \in ReconcileRuns(g) :
        (r.f # "list_vms" /\ r.w.err = "none") =>
            /\ \A v \in Observed(g) :
                  (vm_states[v].state = STATE_PENDING /\ Promotable(g, v, r)) =>
                      /\ Promoted(r.w, v)
                      /\ v \in DOMAIN r.w.managed /\ r.w.managed[v] = STATE_ACTIVE
                      /\ v \notin DeletedByTimeout(r.w)
            /\ \A v \in DeletedByTimeout(r.w) :
                  /\ v \in Observed(g)
                  /\ vm_states[v].state = STATE_PENDING
                  /\ ~Promotable(g, v, r)
                  /\ TimedOut(v)
            /\ \A v \in Observed(g) :
                  (vm_states[v].state = STATE_ACTIVE /\ pve_vms[v].status # "running") =>
                      /\ \E wr \in r.w.writes :
                            /\ wr.vmid = v /\ wr.old_state = STATE_ACTIVE /\ wr.state = STATE_PENDING
                            /\ wr.pending_since = now
                      /\ v \in DOMAIN r.w.managed /\ r.w.managed[v] = STATE_PENDING
                      /\ v \notin DeletedByTimeout(r.w)

\* A pending VM that has timed out is promotable and the tick promotes it, while the
\* same tick without the node listing deletes it by the timeout rule.
C38_Witness ==
    \E g \in Groups : \E v \in Observed(g) : \E r \in ReconcileRuns(g) :
        /\ r.f = "none" /\ r.w.err = "none"
        /\ vm_states[v].state = STATE_PENDING /\ TimedOut(v) /\ Promotable(g, v, r)
        /\ Promoted(r.w, v)
        /\ v \in DeletedByTimeout(reconcile_group(World, g, "list_nodes"))

\* ---------------------------------------------------------------- C39
\* The positions in the configured order of the groups in which find_vm_for_node resolves
\* the node.
Resolving(node) == {i \in 1..Len(GroupOrder) : find_vm_for_node(World, GroupOrder[i], node) # None}

\* The group the label of the node names, when it is a configured group.
LabelGroups(node) == {g \in Groups : Strip(node.label, " ") = <<g>>}

ForNodeRuns == {[node |-> node, f |-> f, w |-> node_group_for_node(Asked, node, 1, f)] :
                   node \in LabelledNodes, f \in {"none", "list_vms"}}

\* C39: node_group_for_node never writes to the state store (no VM record and no
\* desired_size is created or changed), at whatever point of the other tasks' operations
\* it runs; it returns the group named by the node's autoscaler.proxmox/group label when
\* that names a configured group, otherwise the first configured group in which
\* find_vm_for_node resolves the node, otherwise null.
C39_NodeGroupForNode ==
    \A r \in ForNodeRuns :
        /\ r.w.vm_states = vm_states /\ r.w.group_sizes = group_sizes
        /\ r.w.pve_vms = pve_vms /\ r.w.kube_nodes = kube_nodes
        /\ r.w.writes = {} /\ r.w.removed = {}
        /\ r.w.err = "none" =>
              r.w.ret = IF LabelGroups(r.node) # {} THEN <<CHOOSE g \in LabelGroups(r.node) : TRUE>>
                        ELSE IF Resolving(r.node) # {}
                        THEN <<GroupOrder[CHOOSE i \in Resolving(r.node) : \A j \in Resolving(r.node) : i <= j]>>
                        ELSE <<>>
        /\ r.w.err # "none" => r.f = "list_vms" /\ LabelGroups(r.node) = {}

\* While a mutation of group a is between its read and its write, node_group_for_node
\* answers a for a node without label that resolves in group a by its provider id and
\* in group b by its name, b for the same node labelled " b ", and null for a node that
\* no group knows.
C39_Witness ==
    /\ \E c \in Writers : rpc[c].group = GroupOrder[1]
    /\ \E r \in ForNodeRuns :
          /\ r.f = "none" /\ r.node.label = <<>> /\ Resolving(r.node) = {1, 2}
          /\ r.node.provider_id # <<>> /\ r.node.name # <<>>
          /\ r.w.ret = <<GroupOrder[1]>>
          /\ \E q \in ForNodeRuns :
                /\ q.node = [r.node EXCEPT !.label = <<" ", "b", " ">>] /\ q.f = "none"
                /\ q.w.ret = <<"b">>
    /\ \E r \in ForNodeRuns : r.f = "none" /\ r.w.ret = <<>>

====
